---- MODULE Spec2Model ----
(***************************************************************************)
(* Model of the ai_task heartbeat arbitration: the api server's lease      *)
(* table (dao/heartbeat_dao.py), the request gate (routes/auth_plugin.py), *)
(* the client and task routes, and the worker process (clients/main.py).   *)
(* Time is counted in whole seconds.                                       *)
(***************************************************************************)
EXTENDS Integers, Sequences, FiniteSets, TLC

\* ---------------------------------------------------------------- bounds
MaxTime == 152
MaxTokens == 3
MaxUnits == 2
MaxNodes == 3

\* ------------------------------------------------------ program constants
\* default of instance_change_cooldown_seconds / app.config.get(..., 60)
INSTANCE_CHANGE_COOLDOWN_SECONDS == 60
\* default of cooldown_seconds in check_instance_uuid_valid, used by the gate
GATE_COOLDOWN_SECONDS == 60
\* _request: max_network_retries and sleep_seconds
max_network_retries == 10
sleep_seconds == 10

\* the clock advances in these steps (seconds)
TickSteps == {30, 61}
MinTick == CHOOSE d \in TickSteps : \A e \in TickSteps : d <= e
Instances == {1, 2}
Tokens == 1..MaxTokens
ClientIds == {1, 2}
\* every worker process of the model is started with --client-id 1
WorkerClient == 1
NoHeader == 0
\* the tokens that send requests for a client: the other client has one
\* process of its own
ClientTokens(c) == IF c = WorkerClient THEN Tokens ELSE {1}
\* the tokens whose heartbeats are followed transaction by transaction
RaceTokens == {1, 2}

LoginRequiredOps == {"heartbeat", "list_tasks", "get_task", "update_flow"}
SecretOnlyOps == {"get_config", "patch_default_branch"}

\* a flow document: the list flow['nodes'] (each node by its type) and the
\* text under flow['error'] ("" when the key is absent)
EmptyFlow == [nodes |-> <<>>, error |-> ""]
\* an optional argument: <<>> is None, <<x>> is the value x
None == <<>>
Some(x) == <<x>>

FlowStatusArgs == {"none", "running", "reviewing"}
FlowArgs == {None, Some([nodes |-> <<"code_develop">>, error |-> ""])}

TaskKeys == {1, 2}
Units == 1..MaxUnits
\* str(e) of the exceptions a stage raises
ErrTexts == {"agent failed"}

VARIABLES
    now,            \* server clock, datetime.now() in seconds
    heartbeats,     \* table ai_task_client_heartbeats, one row per client id
    task,           \* the task row: flow_status and flow
    default_branch, \* default_branch column of the client's repository
    pc,             \* position of each worker process
    uuid,           \* ClientConfig.instance_uuid of each worker process
    next_uuid,      \* next fresh uuid4 value
    task_threads,   \* ClientRunner.task_threads: task keys with a unit
    last,           \* last request served and its response
    inflight,       \* heartbeat requests being served step by step
    task_status,    \* business status of each task (Task.status)
    workers,        \* the TaskWorker threads, by thread id
    rpc,            \* one call of ApiServerRpc._request, followed by step
    repo,           \* one working copy and the remote it was cloned from
    git,            \* the call of a git_utils function on the working copy
    client_repos,   \* table ai_task_client_repos, the rows of the client
    repos_resp,     \* last PUT /api/client/<id>/repos and its response
    mirror          \* the units refreshing the shared cache at once

workerVars == <<pc, uuid, next_uuid, task_threads>>
raceVars == <<inflight, rpc>>
unitVars == <<task_status, workers>>
repoVars == <<repo, git, client_repos, repos_resp, mirror>>
vars == <<now, heartbeats, task, default_branch, last, workerVars, raceVars,
          unitVars, repoVars>>

\* ------------------------------------------------------ git working copy
\* Commits are numbered; Absent stands for a ref that does not exist. The
\* commits below MaxCommit are on the remote's history, one after the other;
\* MaxCommit is a commit made in the working copy (git commit, or a rebase
\* that rewrote commits).
MaxCommit == 3
Absent == 0
Commits == 1..MaxCommit
RemoteCommits == 1..(MaxCommit - 1)
\* repo_config.default_branch, and branch_prefix + str(task.id)
main_branch == "main"
dev_branch == "dev"
Branches == {main_branch, dev_branch}

\* HEAD: the tip of the checked-out branch, or, while a rebase is stopped,
\* the commit the branch is being replayed onto
HEAD(r) == IF r.rebasing THEN r.origin[main_branch] ELSE r.heads[r.branch]

\* where no directory exists yet
NoRepo(remote) ==
    [dir |-> "absent", branch |-> main_branch,
     heads |-> [b \in Branches |-> Absent],
     origin |-> [b \in Branches |-> Absent],
     remote |-> remote, modified |-> FALSE, untracked |-> FALSE,
     rebasing |-> FALSE]

Remotes == {r \in [Branches -> RemoteCommits \cup {Absent}] :
               r[main_branch] # Absent}

\* the working copies a call may find: no directory, a directory that is no
\* repository, or a repository on one of its branches with or without
\* local modifications and untracked files
Repos ==
    {NoRepo(r) : r \in Remotes}
    \cup {[NoRepo(r) EXCEPT !.dir = "plain"] : r \in Remotes}
    \cup {w \in [dir : {"repo"}, branch : Branches,
                 heads : [Branches -> Commits \cup {Absent}],
                 origin : Remotes, remote : Remotes,
                 modified : BOOLEAN, untracked : BOOLEAN,
                 rebasing : {FALSE}] :
             /\ w.heads[w.branch] # Absent
             /\ w.heads[main_branch] \in RemoteCommits}

\* git rebase: a tip already in the history of onto is moved forward to
\* it, any other tip is rewritten
rebased(tip, onto) == IF tip <= onto THEN onto ELSE MaxCommit

\* whether the command can exit with status 0 in working copy r
can_succeed(cmd, b, r) ==
    CASE cmd = "clone" -> r.dir = "absent"
      [] cmd = "checkout" ->
            /\ r.dir = "repo" /\ ~r.rebasing
            /\ (r.heads[b] # Absent \/ r.origin[b] # Absent)
      [] cmd = "reset --hard" -> r.dir = "repo" /\ r.origin[b] # Absent
      [] cmd = "branch -D" ->
            r.dir = "repo" /\ r.heads[b] # Absent /\ r.branch # b
      [] cmd = "checkout -b" ->
            r.dir = "repo" /\ ~r.rebasing /\ r.heads[b] = Absent
      [] cmd = "rebase" ->
            /\ r.dir = "repo" /\ ~r.rebasing /\ ~r.modified
            /\ r.origin[b] # Absent
      [] cmd = "rebase --abort" -> r.dir = "repo" /\ r.rebasing
      [] cmd \in {"push", "push -f"} -> r.dir = "repo" /\ r.heads[b] # Absent
      [] cmd = "commit" -> r.dir = "repo" /\ r.modified
      [] OTHER -> r.dir = "repo"

\* the working copy after the command exited with status 0
after(cmd, b, r) ==
    CASE cmd = "clone" ->
            [r EXCEPT !.dir = "repo", !.branch = main_branch,
                      !.heads = [x \in Branches |->
                                    IF x = main_branch THEN r.remote[x]
                                    ELSE Absent],
                      !.origin = r.remote]
      [] cmd = "fetch" -> [r EXCEPT !.origin = r.remote]
      [] cmd = "checkout" ->
            [r EXCEPT !.branch = b,
                      !.heads[b] = IF @ = Absent THEN r.origin[b] ELSE @]
      [] cmd = "restore" -> [r EXCEPT !.modified = FALSE]
      [] cmd = "clean" -> [r EXCEPT !.untracked = FALSE]
      [] cmd = "reset --hard" ->
            [r EXCEPT !.heads[r.branch] = r.origin[b], !.modified = FALSE]
      [] cmd = "branch -D" -> [r EXCEPT !.heads[b] = Absent]
      [] cmd = "checkout -b" -> [r EXCEPT !.heads[b] = HEAD(r), !.branch = b]
      [] cmd = "rebase" ->
            [r EXCEPT !.heads[r.branch] = rebased(@, r.origin[b])]
      [] cmd = "rebase --abort" -> [r EXCEPT !.rebasing = FALSE]
      [] cmd \in {"push", "push -f"} ->
            [r EXCEPT !.remote[b] = r.heads[b], !.origin[b] = r.heads[b]]
      [] cmd = "add" ->
            [r EXCEPT !.modified = r.modified \/ r.untracked,
                      !.untracked = FALSE]
      [] cmd = "commit" ->
            [r EXCEPT !.heads[r.branch] = MaxCommit, !.modified = FALSE]
      [] OTHER -> r

\* the working copies the command can leave when it exits with another
\* status or is killed at its timeout: as it was, or, for a rebase that
\* had started, stopped in the middle
after_failure(cmd, b, r) ==
    IF cmd = "rebase" /\ r.dir = "repo" /\ ~r.rebasing /\ ~r.modified
                      /\ r.origin[b] # Absent
    THEN {r, [r EXCEPT !.rebasing = TRUE]}
    ELSE {r}

\* what git writes to stderr when it fails, in pieces
NetworkError == <<"fatal: unable to access the remote">>
RefConflict ==
    <<"error: some local refs could not be updated; try running 'git remote prune origin' to remove any old, ",
      "conflict", "ing branches">>
Stderr(cmd) == IF cmd = "fetch" THEN {NetworkError, RefConflict}
               ELSE {NetworkError}

\* str.lower() on a piece of a message
lower(piece) == IF piece = "CONFLICT" THEN "conflict" ELSE piece

\* word in message.lower()
Contains(message, word) ==
    \E i \in DOMAIN message : lower(message[i]) = word

GitResult(success, message, diff_message) ==
    [success |-> success, message |-> message,
     diff_message |-> diff_message]
NoResult == GitResult(FALSE, <<>>, "")
RebaseConflict == GitResult(FALSE, <<"rebase ", "conflict">>, "")
NothingToCommit(diff_message) ==
    GitResult(TRUE, <<"nothing to commit">>, diff_message)

\* BaseAgent.run_prompt with json_parse=True, by what _execute_prompt does
AgentOutcomes == {"raised", "failed", "bad json", "reply failure",
                  "reply without success", "reply success"}
run_prompt(a) ==
    CASE a \in {"raised", "failed", "bad json"} ->
            [success |-> FALSE, reply |-> [success |-> FALSE]]
      [] a = "reply success" ->
            [success |-> TRUE, reply |-> [success |-> TRUE]]
      [] OTHER -> [success |-> TRUE, reply |-> [success |-> FALSE]]

\* no call yet
NoGit == [fn |-> "none", pc |-> "returned", ran |-> {}, failed_at |-> "",
          result |-> NoResult, pre |-> Absent, known |-> TRUE,
          calls |-> 0, prev |-> NoResult, prev_ran |-> {},
          agent |-> "not invoked", stage |-> "none", rows |-> <<>>]

\* the task units that prepare a stage at the same time, both on
\* git_repo_cache_dir/<repo name>
Callers == {1, 2}
NoRefresh == [c \in Callers |-> [pc |-> "idle", success |-> FALSE]]

\* ------------------------------------------------- repository bindings
MaxRepos == 2
\* the items of a request: well-formed ones over HTTP with a token and
\* over SSH without, and items that miss the URL, the token or the
\* description
RepoItems ==
    {r \in [url : {"", "http://r", "git@r"}, token : {"", "t"},
            desc : {"", "d"}, docs_repo : BOOLEAN] :
        /\ r.url = "git@r" => r.token = ""
        /\ r.desc = "" => r.url = "git@r"
        /\ r.url = "" => r.token = "" /\ ~r.docs_repo}
RepoLists == UNION {[1..n -> RepoItems] : n \in 0..MaxRepos}
NoResp == [status |-> 0, docs_repo_count |-> 0, seq |-> 0]

\* ------------------------------------------------------------ lease table
NoRow == [exists |-> FALSE, instance_uuid |-> 0, last_sync_at |-> 0]

Row(u, t) == [exists |-> TRUE, instance_uuid |-> u, last_sync_at |-> t]

\* update_heartbeat: the decision and the row it leaves behind
update_heartbeat_mut_same(hb, instance_uuid, t, cooldown) ==
    IF ~hb.exists
    THEN [ok |-> TRUE, remaining |-> 0, row |-> Row(instance_uuid, t)]
    ELSE LET time_since_last == t - hb.last_sync_at IN
         IF time_since_last >= cooldown
         THEN [ok |-> TRUE, remaining |-> 0, row |-> Row(instance_uuid, t)]
         ELSE [ok |-> FALSE, remaining |-> cooldown - time_since_last,
               row |-> hb]

update_heartbeat_mut_gt(hb, instance_uuid, t, cooldown) ==
    IF ~hb.exists
    THEN [ok |-> TRUE, remaining |-> 0, row |-> Row(instance_uuid, t)]
    ELSE IF hb.instance_uuid = instance_uuid
    THEN [ok |-> TRUE, remaining |-> 0, row |-> Row(hb.instance_uuid, t)]
    ELSE LET time_since_last == t - hb.last_sync_at IN
         IF time_since_last > cooldown
         THEN [ok |-> TRUE, remaining |-> 0, row |-> Row(instance_uuid, t)]
         ELSE [ok |-> FALSE, remaining |-> cooldown - time_since_last,
               row |-> hb]

update_heartbeat_mut_nocool(hb, instance_uuid, t, cooldown) ==
    [ok |-> TRUE, remaining |-> 0, row |-> Row(instance_uuid, t)]

update_heartbeat_mut_touch(hb, instance_uuid, t, cooldown) ==
    IF ~hb.exists
    THEN [ok |-> TRUE, remaining |-> 0, row |-> Row(instance_uuid, t)]
    ELSE IF hb.instance_uuid = instance_uuid
    THEN [ok |-> TRUE, remaining |-> 0, row |-> Row(hb.instance_uuid, t)]
    ELSE LET time_since_last == t - hb.last_sync_at IN
         IF time_since_last >= cooldown
         THEN [ok |-> TRUE, remaining |-> 0, row |-> Row(instance_uuid, t)]
         ELSE [ok |-> FALSE, remaining |-> cooldown - time_since_last,
               row |-> Row(hb.instance_uuid, t)]

update_heartbeat(hb, instance_uuid, t, cooldown) ==
    IF ~hb.exists
    THEN [ok |-> TRUE, remaining |-> 0, row |-> Row(instance_uuid, t)]
    ELSE IF hb.instance_uuid = instance_uuid
    THEN [ok |-> TRUE, remaining |-> 0, row |-> Row(hb.instance_uuid, t)]
    ELSE LET time_since_last == t - hb.last_sync_at IN
         IF time_since_last >= cooldown
         THEN [ok |-> TRUE, remaining |-> 0, row |-> Row(instance_uuid, t)]
         ELSE [ok |-> FALSE, remaining |-> cooldown - time_since_last,
               row |-> hb]

check_instance_uuid_valid_mut_open(hb, instance_uuid, t, cooldown_seconds) ==
    TRUE

check_instance_uuid_valid_mut_le(hb, instance_uuid, t, cooldown_seconds) ==
    IF ~hb.exists THEN TRUE
    ELSE IF hb.instance_uuid = instance_uuid THEN TRUE
    ELSE IF t - hb.last_sync_at <= cooldown_seconds THEN FALSE
    ELSE TRUE

check_instance_uuid_valid_mut_token(hb, instance_uuid, t, cooldown_seconds) ==
    IF ~hb.exists THEN TRUE
    ELSE IF t - hb.last_sync_at < cooldown_seconds THEN FALSE
    ELSE TRUE

check_instance_uuid_valid(hb, instance_uuid, t, cooldown_seconds) ==
    IF ~hb.exists THEN TRUE
    ELSE IF hb.instance_uuid = instance_uuid THEN TRUE
    ELSE IF t - hb.last_sync_at < cooldown_seconds THEN FALSE
    ELSE TRUE

\* ------------------------------------------------------------ the routes
\* login_required with a valid X-Client-Secret: the instance gate is applied
\* only when both X-Instance-UUID and X-Client-ID are present
login_required(hdr_client, hdr_uuid) ==
    IF hdr_uuid # NoHeader /\ hdr_client # NoHeader
    THEN check_instance_uuid_valid(heartbeats[hdr_client], hdr_uuid, now,
                                   GATE_COOLDOWN_SECONDS)
    ELSE TRUE

\* which decorator a route carries
Admitted(op, hdr_client, hdr_uuid) ==
    IF op \in LoginRequiredOps THEN login_required(hdr_client, hdr_uuid)
    ELSE TRUE

\* the record of a served request: what was asked, the token the lease held
\* when it arrived, and the answer (status, and the countdown of the message
\* when it has one); seq tells two equal requests apart
Response(op, client, hdr_uuid, u, status, has_countdown, countdown) ==
    [op |-> op, client |-> client, hdr_uuid |-> hdr_uuid, uuid |-> u,
     prev_uuid |-> heartbeats[client].instance_uuid,
     status |-> status, has_countdown |-> has_countdown,
     countdown |-> countdown, seq |-> 1 - last.seq]

\* the 409 of login_required: a fixed message, no countdown
GateConflict(op, hdr_client, hdr_uuid, u) ==
    Response(op, hdr_client, hdr_uuid, u, 409, FALSE, 0)

heartbeat_mut_refresh(client_id, hdr_uuid, u) ==
    IF ~Admitted("heartbeat", client_id, hdr_uuid)
    THEN /\ last' = GateConflict("heartbeat", client_id, hdr_uuid, u)
         /\ heartbeats' = [heartbeats EXCEPT ![client_id].last_sync_at = now]
    ELSE LET r == update_heartbeat(heartbeats[client_id], u, now,
                                   INSTANCE_CHANGE_COOLDOWN_SECONDS) IN
         /\ heartbeats' = [heartbeats EXCEPT ![client_id] = r.row]
         /\ last' = IF r.ok
                    THEN Response("heartbeat", client_id, hdr_uuid, u,
                                  200, FALSE, 0)
                    ELSE Response("heartbeat", client_id, hdr_uuid, u,
                                  409, TRUE, r.remaining)

\* POST /api/client/<client_id>/heartbeat with body {instance_uuid: u}
heartbeat(client_id, hdr_uuid, u) ==
    IF ~Admitted("heartbeat", client_id, hdr_uuid)
    THEN /\ last' = GateConflict("heartbeat", client_id, hdr_uuid, u)
         /\ UNCHANGED heartbeats
    ELSE LET r == update_heartbeat(heartbeats[client_id], u, now,
                                   INSTANCE_CHANGE_COOLDOWN_SECONDS) IN
         /\ heartbeats' = [heartbeats EXCEPT ![client_id] = r.row]
         /\ last' = IF r.ok
                    THEN Response("heartbeat", client_id, hdr_uuid, u,
                                  200, FALSE, 0)
                    ELSE Response("heartbeat", client_id, hdr_uuid, u,
                                  409, TRUE, r.remaining)

update_task_flow_mut_overwrite(t, flow_status, flow) ==
    [flow_status |-> IF flow_status = "none" THEN t.flow_status
                     ELSE flow_status,
     flow |-> IF flow = None THEN EmptyFlow ELSE flow[1]]

\* dao update_task_flow: only the fields that are not None are written
update_task_flow(t, flow_status, flow) ==
    [flow_status |-> IF flow_status = "none" THEN t.flow_status
                     ELSE flow_status,
     flow |-> IF flow = None THEN t.flow ELSE flow[1]]

\* PUT /api/task/<id>/flow
update_task_flow_api(hdr_client, hdr_uuid, flow_status, flow) ==
    IF ~Admitted("update_flow", hdr_client, hdr_uuid)
    THEN /\ last' = GateConflict("update_flow", hdr_client, hdr_uuid,
                                 hdr_uuid)
         /\ UNCHANGED task
    ELSE /\ task' = update_task_flow(task, flow_status, flow)
         /\ last' = Response("update_flow", hdr_client, hdr_uuid, hdr_uuid,
                             200, FALSE, 0)

\* a route that only reads: GET /api/task, GET /api/task/<id>,
\* GET /api/client/<id>/config
read_api(op, hdr_client, hdr_uuid) ==
    IF ~Admitted(op, hdr_client, hdr_uuid)
    THEN last' = GateConflict(op, hdr_client, hdr_uuid, hdr_uuid)
    ELSE last' = Response(op, hdr_client, hdr_uuid, hdr_uuid, 200, FALSE, 0)

\* PATCH /api/client/<id>/repos/<repo>/default-branch
update_repo_default_branch_api(hdr_client, hdr_uuid) ==
    IF ~Admitted("patch_default_branch", hdr_client, hdr_uuid)
    THEN /\ last' = GateConflict("patch_default_branch", hdr_client,
                                 hdr_uuid, hdr_uuid)
         /\ UNCHANGED default_branch
    ELSE /\ default_branch' = "main"
         /\ last' = Response("patch_default_branch", hdr_client, hdr_uuid,
                             hdr_uuid, 200, FALSE, 0)

\* ------------------------------------------------------- the task units
\* the row of the second task: it waits for a review that nobody gives
Task2 == [flow_status |-> "reviewing",
          flow |-> [nodes |-> <<"code_develop">>, error |-> ""]]

\* what GET /api/task/<id> and the task list return for a task key
TaskRow(k) == IF k = 1 THEN task ELSE Task2

\* a thread id that carries no thread.  failed is history, not a field of
\* the thread: a stage of this unit has raised and the task's flow_status
\* has not been reset since
NoWorker == [pc |-> "unstarted", key |-> 0, proc |-> 0, stopped |-> FALSE,
             task |-> [flow_status |-> "", flow |-> EmptyFlow], err |-> "",
             failed |-> FALSE]

\* TaskWorker(task=task, config=self.config) followed by start()
TaskWorker(k, i) == [pc |-> "loop", key |-> k, proc |-> i, stopped |-> FALSE,
                     task |-> TaskRow(k), err |-> "", failed |-> FALSE]

stop_mut_noop(w) == w

\* TaskWorker.stop(): the flag is set
stop(w) == [w EXCEPT !.stopped = TRUE]

\* Thread.is_alive()
is_alive(u) == workers[u].pc \notin {"unstarted", "exited"}

\* ---------------------------------------------- the transport client
\* the endpoints the worker calls
RpcOps ==
    {"heartbeat", "list_tasks", "get_task", "update_flow", "get_config",
     "patch_default_branch"}

\* what requests.request and response.json() can come to: an exception of
\* the connection (requests.RequestException: refused, timed out, reset),
\* or a response with a status code whose body is JSON or is not
ConnectionError == [kind |-> "exception", status |-> 0, json |-> FALSE]
HttpResponse(status, json) ==
    [kind |-> "response", status |-> status, json |-> json]
Outcomes ==
    {ConnectionError}
    \cup {HttpResponse(st, js) : st \in {200, 400, 409, 500}, js \in BOOLEAN}

\* no call is being made
NoCall == [pc |-> "idle", op |-> "none", _network_retry_count |-> 0,
           attempts |-> 0, slept |-> 0, code |-> 0,
           outcome |-> HttpResponse(0, FALSE)]

retries_mut_le(_network_retry_count) ==
    _network_retry_count <= max_network_retries

\* except requests.RequestException: if _network_retry_count <
\* max_network_retries
retries(_network_retry_count) ==
    _network_retry_count < max_network_retries

outcome_of_mut_json(o) ==
    IF o.kind = "exception" THEN "retry"
    ELSE IF ~o.json THEN "retry"
    ELSE IF o.status >= 400 THEN "raise"
    ELSE "return"

\* the except clause that receives what the try block raised: the response
\* is returned, or ApiException leaves _request, or the connection's
\* exception is handled by the retry
outcome_of(o) ==
    IF o.kind = "exception" THEN "retry"
    ELSE IF ~o.json THEN "raise"
    ELSE IF o.status >= 400 THEN "raise"
    ELSE "return"

\* ------------------------------------------------------------------ Init
Idle == [stage |-> "idle", t |-> 0, status |-> 0, write |-> "none"]

InitBase ==
    /\ now = 0
    /\ heartbeats = [c \in ClientIds |-> NoRow]
    /\ task = [flow_status |-> "pending", flow |-> EmptyFlow]
    /\ default_branch = ""
    /\ pc = [i \in Instances |-> "stopped"]
    /\ uuid = [i \in Instances |-> 0]
    /\ next_uuid = 1
    /\ task_threads = [i \in Instances |-> {}]
    /\ last = [op |-> "none", client |-> 0, hdr_uuid |-> 0, uuid |-> 0,
               prev_uuid |-> 0, status |-> 0, has_countdown |-> FALSE,
               countdown |-> 0, seq |-> 0]
    /\ inflight = [s \in RaceTokens |-> Idle]
    /\ task_status = [k \in TaskKeys |-> IF k = 1 THEN "running" ELSE "suspended"]
    /\ workers = [u \in Units |-> NoWorker]
    /\ rpc = NoCall

Init ==
    /\ InitBase
    /\ repo = NoRepo([b \in Branches |-> IF b = main_branch THEN 1 ELSE Absent])
    /\ git = NoGit
    /\ client_repos = <<>>
    /\ repos_resp = NoResp
    /\ mirror = NoRefresh

\* ------------------------------------------------------- the server alone
Tick ==
    /\ \E d \in TickSteps : /\ now + d <= MaxTime
                            /\ now' = now + d
    /\ UNCHANGED <<heartbeats, task, default_branch, last, workerVars,
                   raceVars>>
    /\ UNCHANGED <<unitVars, repoVars>>

\* a heartbeat request; h says whether it carries X-Instance-UUID
Heartbeat(c, h, u) ==
    /\ heartbeat(c, IF h THEN u ELSE NoHeader, u)
    /\ UNCHANGED <<repoVars, now, task, default_branch, workerVars, raceVars>>
    /\ UNCHANGED unitVars

\* a read request behind the gate, sent with the worker's headers
ReadRequest(op, c, u) ==
    /\ read_api(op, c, u)
    /\ UNCHANGED <<repoVars, now, heartbeats, task, default_branch, workerVars,
                   raceVars>>
    /\ UNCHANGED unitVars

UpdateFlow(c, u) ==
    /\ \E fs \in FlowStatusArgs, f \in FlowArgs :
           update_task_flow_api(c, u, fs, f)
    /\ UNCHANGED <<repoVars, now, heartbeats, default_branch, workerVars, raceVars>>
    /\ UNCHANGED unitVars

PatchDefaultBranch(c, u) ==
    /\ update_repo_default_branch_api(c, u)
    /\ UNCHANGED <<repoVars, now, heartbeats, task, workerVars, raceVars>>
    /\ UNCHANGED unitVars

\* heartbeats for every client, and the gate in front of a read
NextArb ==
    \/ Tick
    \/ \E c \in ClientIds : \E u \in ClientTokens(c), h \in BOOLEAN :
           Heartbeat(c, h, u)
    \/ \E c \in ClientIds : \E u \in ClientTokens(c) :
           ReadRequest("get_task", c, u)

SpecArb == Init /\ [][NextArb]_vars

\* every operation a worker uses, for the worker's client
NextGate ==
    \/ Tick
    \/ \E u \in Tokens : Heartbeat(WorkerClient, TRUE, u)
    \/ \E u \in Tokens, op \in {"list_tasks", "get_task", "get_config"} :
           ReadRequest(op, WorkerClient, u)
    \/ \E u \in Tokens : UpdateFlow(WorkerClient, u)
    \/ \E u \in Tokens : PatchDefaultBranch(WorkerClient, u)

SpecGate == Init /\ [][NextGate]_vars

\* ---------------------------------------------------- the worker process
\* main(): a process starts with a fresh uuid4, fetches its configuration
\* (sync_config, reporting the detected default branch when none is stored)
\* and passes check_config
Launch(i) ==
    /\ pc[i] = "stopped"
    /\ next_uuid <= MaxTokens
    /\ uuid' = [uuid EXCEPT ![i] = next_uuid]
    /\ next_uuid' = next_uuid + 1
    /\ IF default_branch = ""
       THEN update_repo_default_branch_api(WorkerClient, next_uuid)
       ELSE read_api("get_config", WorkerClient, next_uuid)
            /\ UNCHANGED default_branch
    /\ pc' = [pc EXCEPT ![i] = "startup_hb"]
    /\ UNCHANGED <<repoVars, now, heartbeats, task, task_threads, raceVars>>
    /\ UNCHANGED unitVars

StartupHeartbeat_mut_ignore(i) ==
    /\ pc[i] = "startup_hb"
    /\ heartbeat(WorkerClient, uuid[i], uuid[i])
    /\ pc' = [pc EXCEPT ![i] = "poll_hb"]
    /\ UNCHANGED <<repoVars, now, task, default_branch, uuid, next_uuid, task_threads,
                   raceVars>>
    /\ UNCHANGED unitVars

\* main(): the heartbeat before the runner is created; on failure return
StartupHeartbeat(i) ==
    /\ pc[i] = "startup_hb"
    /\ heartbeat(WorkerClient, uuid[i], uuid[i])
    /\ pc' = [pc EXCEPT ![i] = IF last'.status = 200 THEN "poll_hb"
                               ELSE "stopped"]
    /\ UNCHANGED <<repoVars, now, task, default_branch, uuid, next_uuid, task_threads,
                   raceVars>>
    /\ UNCHANGED unitVars

\* ClientRunner.run: heartbeat at the top of an iteration; an exception is
\* logged, the loop sleeps and goes round again
PollHeartbeat(i) ==
    /\ pc[i] = "poll_hb"
    /\ heartbeat(WorkerClient, uuid[i], uuid[i])
    /\ pc' = [pc EXCEPT ![i] = IF last'.status = 200 THEN "poll_fetch"
                               ELSE "poll_hb"]
    /\ UNCHANGED <<repoVars, now, task, default_branch, uuid, next_uuid, task_threads,
                   raceVars>>
    /\ UNCHANGED unitVars

\* GET /api/task?status=running&clientId=<id>: the keys of the tasks
\* returned
get_running_tasks == {k \in TaskKeys : task_status[k] = "running"}

keys_to_remove_mut_dead(i, running_task_keys) ==
    {e \in task_threads[i] : ~is_alive(e[2])}

\* cleanup_finished_threads: the registry entries <<key, thread>> that are
\* deleted, because the thread has ended or the key is not running any more
keys_to_remove(i, running_task_keys) ==
    {e \in task_threads[i] :
        ~is_alive(e[2]) \/ e[1] \notin running_task_keys}

\* ClientRunner.run: fetch the running tasks, clean the registry up (a live
\* thread whose key has left is told to stop), start the missing units,
\* sleep.  A thread id is taken from the ids that carry no thread; the ids
\* are MaxUnits many.
PollFetch(i) ==
    /\ pc[i] = "poll_fetch"
    /\ read_api("list_tasks", WorkerClient, uuid[i])
    /\ IF last'.status = 200
       THEN LET running_task_keys == get_running_tasks
                removed == keys_to_remove(i, running_task_keys)
                kept == task_threads[i] \ removed
                told == {e[2] : e \in {r \in removed : is_alive(r[2])}}
                ended == {e[2] : e \in {r \in removed : ~is_alive(r[2])}}
                missing == {k \in running_task_keys :
                               \A e \in kept : e[1] # k}
                free == {u \in Units : workers[u].pc = "unstarted"}
                            \cup ended
            IN  /\ Cardinality(free) >= Cardinality(missing)
                /\ LET new == CHOOSE f \in [missing -> free] :
                                  \A a, b \in missing : a # b => f[a] # f[b]
                   IN  /\ task_threads' = [task_threads EXCEPT ![i] =
                               kept \cup {<<k, new[k]>> : k \in missing}]
                       /\ workers' = [u \in Units |->
                               IF \E k \in missing : new[k] = u
                               THEN TaskWorker(
                                        CHOOSE k \in missing : new[k] = u, i)
                               ELSE IF u \in ended THEN NoWorker
                               ELSE IF u \in told
                               THEN stop(workers[u])
                               ELSE workers[u]]
       ELSE UNCHANGED <<task_threads, workers>>
    /\ pc' = [pc EXCEPT ![i] = "poll_hb"]
    /\ UNCHANGED <<repoVars, now, heartbeats, task, default_branch, uuid, next_uuid,
                   raceVars, task_status>>

\* the process dies (kill, crash, power loss); its daemon threads go with it
Crash(i) ==
    /\ pc[i] # "stopped"
    /\ pc' = [pc EXCEPT ![i] = "stopped"]
    /\ task_threads' = [task_threads EXCEPT ![i] = {}]
    /\ workers' = [u \in Units |-> IF workers[u].proc = i THEN NoWorker
                                    ELSE workers[u]]
    /\ UNCHANGED <<repoVars, now, heartbeats, task, default_branch, last, uuid,
                   next_uuid, raceVars, task_status>>

NextWorker ==
    \/ Tick
    \/ \E i \in Instances : Launch(i)
    \/ \E i \in Instances : StartupHeartbeat(i)
    \/ \E i \in Instances : PollHeartbeat(i)
    \/ \E i \in Instances : PollFetch(i)
    \/ \E i \in Instances : Crash(i)

SpecWorker == Init /\ [][NextWorker]_vars

\* ------------------------------------------------- TaskWorker.run, by step
\* 'error' in flow_status
HasError(flow_status) == flow_status \in {"error", "client_error"}

\* BaseNode.execute: the status a stage runs under, and the status it
\* persists when its envelope has completed
executing_status(flow_status) ==
    IF flow_status \in {"pending", "running"} THEN "running"
    ELSE flow_status

default_next_status_mut_done(flow_status) ==
    IF flow_status \in {"pending", "running"} THEN "reviewing"
    ELSE "done"

default_next_status(flow_status) ==
    IF flow_status \in {"pending", "running", "revising"} THEN "reviewing"
    ELSE "done"

ActiveStatuses_mut_reviewing ==
    {"pending", "running", "revising", "reviewed", "reviewing"}

\* the statuses for which execute runs a stage
ActiveStatuses == {"pending", "running", "revising", "reviewed"}

\* the thread is not kept by the registry of its process
Dropped(u) == \A i \in Instances, k \in TaskKeys : <<k, u>> \notin task_threads[i]

\* run() has returned or died: a thread nobody refers to is gone
Ended(u) == IF Dropped(u) THEN NoWorker
            ELSE [workers[u] EXCEPT !.pc = "exited"]

Begin_mut_nostop(u) ==
    /\ workers[u].pc = "loop"
    /\ workers' = [workers EXCEPT ![u].pc = "get_task"]
    /\ UNCHANGED <<repoVars, now, heartbeats, task, default_branch, last, workerVars,
                   raceVars, task_status>>

\* A thread at "loop" is in the finally block (five sleeps of one second,
\* left early when stopped) or at the test of the while loop.
\* while not self.stopped: the next cycle begins
Begin(u) ==
    /\ workers[u].pc = "loop"
    /\ ~workers[u].stopped
    /\ workers' = [workers EXCEPT ![u].pc = "get_task"]
    /\ UNCHANGED <<repoVars, now, heartbeats, task, default_branch, last, workerVars,
                   raceVars, task_status>>

\* while not self.stopped: the flag is set, run() returns
Exit(u) ==
    /\ workers[u].pc = "loop"
    /\ workers[u].stopped
    /\ workers' = [workers EXCEPT ![u] = Ended(u)]
    /\ UNCHANGED <<repoVars, now, heartbeats, task, default_branch, last, workerVars,
                   raceVars, task_status>>

\* self.task = get_task(self.task.id), then the test for 'error'; ok says
\* whether the request reaches the server (otherwise _request gives up and
\* raises)
GetTask(u, ok) ==
    /\ workers[u].pc = "get_task"
    /\ IF ok
       THEN /\ read_api("get_task", WorkerClient, uuid[workers[u].proc])
            /\ workers' = [workers EXCEPT ![u] =
                   IF last'.status = 200
                   THEN [@ EXCEPT !.task = TaskRow(workers[u].key),
                                  !.pc = IF HasError(TaskRow(workers[u].key)
                                                         .flow_status)
                                         THEN "loop" ELSE "sync_config"]
                   ELSE [@ EXCEPT !.err = "request failed",
                                  !.pc = "handler"]]
       ELSE /\ workers' = [workers EXCEPT ![u].err = "request failed",
                                          ![u].pc = "handler"]
            /\ UNCHANGED last
    /\ UNCHANGED <<repoVars, now, heartbeats, task, default_branch, workerVars,
                   raceVars, task_status>>

\* self.config.sync_config(): GET /api/client/<id>/config
SyncConfig(u, ok) ==
    /\ workers[u].pc = "sync_config"
    /\ IF ok
       THEN /\ read_api("get_config", WorkerClient, uuid[workers[u].proc])
            /\ workers' = [workers EXCEPT ![u] =
                   IF last'.status = 200
                   THEN [@ EXCEPT !.pc = "execute"]
                   ELSE [@ EXCEPT !.err = "request failed",
                                  !.pc = "handler"]]
       ELSE /\ workers' = [workers EXCEPT ![u].err = "request failed",
                                          ![u].pc = "handler"]
            /\ UNCHANGED last
    /\ UNCHANGED <<repoVars, now, heartbeats, task, default_branch, workerVars,
                   raceVars, task_status>>

\* BaseNode.execute up to the envelope: the dispatch on the fetched
\* flow_status and the intermediate update of _execute_and_persist, whose
\* result (False when the update failed) is not looked at
Execute(u, ok) ==
    /\ workers[u].pc = "execute"
    /\ LET current_status == workers[u].task.flow_status IN
       IF current_status \in ActiveStatuses
       THEN /\ IF current_status # executing_status(current_status) /\ ok
               THEN update_task_flow_api(WorkerClient, uuid[workers[u].proc],
                                         executing_status(current_status),
                                         None)
               ELSE UNCHANGED <<task, last>>
            /\ workers' = [workers EXCEPT ![u].pc = "envelope"]
       ELSE /\ workers' = [workers EXCEPT ![u] =
                   IF current_status \in {"reviewing", "done", "error",
                                          "client_error"}
                   THEN [@ EXCEPT !.pc = "loop"]
                   ELSE [@ EXCEPT !.err = "bad status", !.pc = "handler"]]
            /\ UNCHANGED <<task, last>>
    /\ UNCHANGED <<repoVars, now, heartbeats, default_branch, workerVars, raceVars,
                   task_status>>

\* before_execute, the stage's executor and after_execute: either they
\* complete, and after_execute has appended the stage's node to
\* self.task.flow, or one of them raises
Envelope(u, completes) ==
    /\ workers[u].pc = "envelope"
    /\ IF completes
       THEN /\ Len(workers[u].task.flow.nodes) < MaxNodes
            /\ workers' = [workers EXCEPT
                   ![u].task.flow.nodes = Append(@, "code_develop"),
                   ![u].pc = "persist"]
       ELSE \E e \in ErrTexts :
                workers' = [workers EXCEPT ![u].err = e, ![u].pc = "handler",
                                           ![u].failed = TRUE]
    /\ UNCHANGED <<repoVars, now, heartbeats, task, default_branch, last, workerVars,
                   raceVars, task_status>>

Persist_mut_flow_first(u, ok) ==
    /\ workers[u].pc = "persist"
    /\ IF ok
       THEN update_task_flow_api(WorkerClient, uuid[workers[u].proc],
                "none", Some(workers[u].task.flow))
       ELSE UNCHANGED <<task, last>>
    /\ workers' = [workers EXCEPT ![u].pc = "loop"]
    /\ UNCHANGED <<repoVars, now, heartbeats, default_branch, workerVars, raceVars,
                   task_status>>

\* _execute_and_persist: flow and the stage's next status in one update;
\* the result of update_task_flow is not looked at
Persist(u, ok) ==
    /\ workers[u].pc = "persist"
    /\ IF ok
       THEN update_task_flow_api(WorkerClient, uuid[workers[u].proc],
                default_next_status(workers[u].task.flow_status),
                Some(workers[u].task.flow))
       ELSE UNCHANGED <<task, last>>
    /\ workers' = [workers EXCEPT ![u].pc = "loop"]
    /\ UNCHANGED <<repoVars, now, heartbeats, default_branch, workerVars, raceVars,
                   task_status>>

\* except Exception: the snapshot is marked client_error, the text goes
\* under flow['error'], and both are sent; update_task_flow swallows a
\* failure
Handler(u, ok) ==
    /\ workers[u].pc = "handler"
    /\ LET flow == [workers[u].task.flow EXCEPT !.error = workers[u].err] IN
       /\ IF ok
          THEN update_task_flow_api(WorkerClient, uuid[workers[u].proc],
                                    "client_error", Some(flow))
          ELSE UNCHANGED <<task, last>>
       /\ workers' = [workers EXCEPT ![u].task.flow_status = "client_error",
                                     ![u].task.flow = flow,
                                     ![u].err = "",
                                     ![u].pc = "loop"]
    /\ UNCHANGED <<repoVars, now, heartbeats, default_branch, workerVars, raceVars,
                   task_status>>

\* an exception leaves the except block (update_task_flow catches
\* ApiException only): run() dies after the finally block
HandlerRaises(u) ==
    /\ workers[u].pc = "handler"
    /\ workers' = [workers EXCEPT ![u] = Ended(u)]
    /\ UNCHANGED <<repoVars, now, heartbeats, task, default_branch, last, workerVars,
                   raceVars, task_status>>

\* ------------------------------------------------ the user, through the UI
\* the requests of the review form: the action, and the feedback text
\* (none, blanks only, or a comment)
ReviewActions == {"approve", "revise", "reject"}
Feedbacks == {"", "  ", "fix it"}

\* str.strip()
strip(feedback) == IF feedback = "  " THEN "" ELSE feedback

\* BaseNode.user_feedback: the content of the last node if it is a
\* user_feedback node
user_feedback(flow) ==
    IF Len(flow.nodes) > 0 /\ flow.nodes[Len(flow.nodes)] = "user_feedback"
    THEN "content" ELSE ""

review_task_mut_approve_done(t, action, feedback) ==
    IF action \notin {"approve", "revise"} THEN t
    ELSE IF t.flow_status \notin {"reviewing", "done"} THEN t
    ELSE IF action = "approve"
    THEN update_task_flow(t, "reviewed", None)
    ELSE IF feedback = "" \/ strip(feedback) = "" THEN t
    ELSE update_task_flow(t, "revising",
             Some([t.flow EXCEPT !.nodes = Append(@, "user_feedback")]))

review_task_mut_blank(t, action, feedback) ==
    IF action \notin {"approve", "revise"} THEN t
    ELSE IF t.flow_status \notin {"reviewing", "done"} THEN t
    ELSE IF action = "approve"
    THEN IF t.flow_status # "reviewing" THEN t
         ELSE update_task_flow(t, "reviewed", None)
    ELSE IF feedback = "" THEN t
    ELSE update_task_flow(t, "revising",
             Some([t.flow EXCEPT !.nodes = Append(@, "user_feedback")]))

\* POST /api/task/<id>/review: review_task; a request that raises leaves
\* the row as it is
review_task(t, action, feedback) ==
    IF action \notin {"approve", "revise"} THEN t
    ELSE IF t.flow_status \notin {"reviewing", "done"} THEN t
    ELSE IF action = "approve"
    THEN IF t.flow_status # "reviewing" THEN t
         ELSE update_task_flow(t, "reviewed", None)
    ELSE IF feedback = "" \/ strip(feedback) = "" THEN t
    ELSE update_task_flow(t, "revising",
             Some([t.flow EXCEPT !.nodes = Append(@, "user_feedback")]))

Review(action, feedback) ==
    /\ review_task(task, action, feedback) # task
    /\ Len(review_task(task, action, feedback).flow.nodes) <= MaxNodes
    /\ task' = review_task(task, action, feedback)
    /\ UNCHANGED <<repoVars, now, heartbeats, default_branch, last, workerVars,
                   raceVars, unitVars>>

\* PUT /api/task/<id>/flow from the UI: the error is cleared by hand
ResetFlow ==
    /\ HasError(task.flow_status)
    /\ task' = update_task_flow(task, "pending", None)
    /\ workers' = [u \in Units |-> [workers[u] EXCEPT !.failed = FALSE]]
    /\ UNCHANGED <<repoVars, now, heartbeats, default_branch, last, workerVars,
                   raceVars, task_status>>

\* PATCH /api/task/<id>/status: the task is suspended or set running
SetStatus(k, st) ==
    /\ task_status[k] # st
    /\ task_status' = [task_status EXCEPT ![k] = st]
    /\ UNCHANGED <<repoVars, now, heartbeats, task, default_branch, last, workerVars,
                   raceVars, workers>>

\* one worker process, its unit for the running task, the user who reviews, and a
\* network that may fail
NextFlow ==
    \/ Launch(1)
    \/ StartupHeartbeat(1)
    \/ PollHeartbeat(1)
    \/ PollFetch(1)
    \/ \E u \in Units : Begin(u)
    \/ \E u \in Units, ok \in BOOLEAN : GetTask(u, ok)
    \/ \E u \in Units, ok \in BOOLEAN : SyncConfig(u, ok)
    \/ \E u \in Units, ok \in BOOLEAN : Execute(u, ok)
    \/ \E u \in Units, completes \in BOOLEAN : Envelope(u, completes)
    \/ \E u \in Units, ok \in BOOLEAN : Persist(u, ok)
    \/ \E u \in Units, ok \in BOOLEAN : Handler(u, ok)
    \/ \E action \in ReviewActions, feedback \in Feedbacks :
          Review(action, feedback)
    \/ ResetFlow

SpecFlow == Init /\ [][NextFlow]_vars

\* one worker process and its units while tasks are suspended and resumed;
\* every request reaches the server
NextSup ==
    \/ Launch(1)
    \/ StartupHeartbeat(1)
    \/ PollHeartbeat(1)
    \/ PollFetch(1)
    \/ \E st \in {"running", "suspended"} : SetStatus(1, st)
    \/ \E u \in Units : Begin(u)
    \/ \E u \in Units : Exit(u)
    \/ \E u \in Units : GetTask(u, TRUE)
    \/ \E u \in Units : SyncConfig(u, TRUE)
    \/ \E u \in Units : Execute(u, TRUE)
    \/ \E u \in Units : Envelope(u, TRUE)
    \/ \E u \in Units : Persist(u, TRUE)

SpecSup == Init /\ [][NextSup]_vars

\* the step thread u takes next when its call in flight returns
Continue(u) ==
    \/ Exit(u)
    \/ GetTask(u, TRUE)
    \/ SyncConfig(u, TRUE)
    \/ Execute(u, TRUE)
    \/ Envelope(u, TRUE)
    \/ Persist(u, TRUE)

\* one worker process and the unit of a running task that is suspended at
\* some moment of the unit's cycle, while the other task may be set
\* running; threads are scheduled and calls return: a unit that can take
\* its next step takes it
NextStop ==
    \/ Launch(1)
    \/ StartupHeartbeat(1)
    \/ PollHeartbeat(1)
    \/ PollFetch(1)
    \/ SetStatus(1, "suspended")
    \/ SetStatus(2, "running")
    \/ \E u \in Units : Begin(u)
    \/ \E u \in Units : Continue(u)

SpecStop ==
    /\ Init /\ [][NextStop]_vars
    /\ \A u \in Units : WF_vars(Continue(u))

\* one worker process and its registry while both tasks are suspended and
\* resumed; the requests of the units never reach the server, so a unit
\* goes round its loop through the except block, where it may die
NextReg ==
    \/ Launch(1)
    \/ StartupHeartbeat(1)
    \/ PollHeartbeat(1)
    \/ PollFetch(1)
    \/ \E k \in TaskKeys, st \in {"running", "suspended"} : SetStatus(k, st)
    \/ \E u \in Units : Begin(u)
    \/ \E u \in Units : Exit(u)
    \/ \E u \in Units : GetTask(u, FALSE)
    \/ \E u \in Units : Handler(u, FALSE)
    \/ \E u \in Units : HandlerRaises(u)

SpecReg == Init /\ [][NextReg]_vars

\* ------------------------------------------- ApiServerRpc._request, by step
\* a caller enters _request(method, endpoint, ...)
RpcCall(op) ==
    /\ rpc.pc \in {"idle", "returned", "raised"}
    /\ rpc' = [NoCall EXCEPT !.pc = "request", !.op = op]
    /\ UNCHANGED <<repoVars, now, heartbeats, task, default_branch, last, workerVars,
                   inflight, unitVars>>

\* requests.request(...), response.json() and the status test
RpcAttempt(o) ==
    /\ rpc.pc = "request"
    /\ rpc' = [rpc EXCEPT
           !.attempts = @ + 1,
           !.outcome = o,
           !.pc = CASE outcome_of(o) = "return" -> "returned"
                    [] outcome_of(o) = "raise" -> "raised"
                    [] OTHER -> IF retries(rpc._network_retry_count)
                                THEN "sleep" ELSE "raised",
           !.code = CASE outcome_of(o) = "raise" -> o.status
                      [] OTHER -> 0]
    /\ UNCHANGED <<repoVars, now, heartbeats, task, default_branch, last, workerVars,
                   inflight, unitVars>>

\* time.sleep(sleep_seconds), then _request calls itself with
\* _network_retry_count + 1
RpcSleep ==
    /\ rpc.pc = "sleep"
    /\ rpc' = [rpc EXCEPT !.slept = @ + sleep_seconds,
                          !._network_retry_count = @ + 1,
                          !.pc = "request"]
    /\ UNCHANGED <<repoVars, now, heartbeats, task, default_branch, last, workerVars,
                   inflight, unitVars>>

NextRpc ==
    \/ \E op \in RpcOps : RpcCall(op)
    \/ \E o \in Outcomes : RpcAttempt(o)
    \/ RpcSleep

SpecRpc == Init /\ [][NextRpc]_vars

\* ------------------------------------- heartbeats served concurrently
\* The heartbeat request of token s for the worker's client, one database
\* transaction at a time: the gate, then update_heartbeat's SELECT and
\* decision, then the flush and commit at the end of its with-block.
\* write is what the session holds for the flush: "insert" (session.add of
\* a new row), "refresh" (last_sync_at set) or "takeover" (instance_uuid
\* and last_sync_at set); t is the time written.
HbGate(s) ==
    /\ inflight[s].stage = "idle"
    /\ inflight' = [inflight EXCEPT ![s] =
           IF login_required(WorkerClient, s)
           THEN [Idle EXCEPT !.stage = "gated"]
           ELSE [Idle EXCEPT !.stage = "done", !.status = 409]]
    /\ UNCHANGED <<repoVars, now, heartbeats, task, default_branch, last, workerVars>>
    /\ UNCHANGED <<unitVars, rpc>>

HbRead(s) ==
    /\ inflight[s].stage = "gated"
    /\ LET snap == heartbeats[WorkerClient]
           r == update_heartbeat(snap, s, now,
                                 INSTANCE_CHANGE_COOLDOWN_SECONDS) IN
       inflight' = [inflight EXCEPT ![s] =
           IF r.ok
           THEN [stage |-> "read", t |-> now, status |-> 0,
                 write |-> IF ~snap.exists THEN "insert"
                           ELSE IF snap.instance_uuid = s THEN "refresh"
                           ELSE "takeover"]
           ELSE [Idle EXCEPT !.stage = "done", !.status = 409]]
    /\ UNCHANGED <<repoVars, now, heartbeats, task, default_branch, last, workerVars>>
    /\ UNCHANGED <<unitVars, rpc>>

\* session.commit(): INSERT for a new row (the unique index on
\* (user_id, client_id) refuses a second one), UPDATE of the changed
\* columns by primary key otherwise
HbCommit(s) ==
    /\ inflight[s].stage = "read"
    /\ LET cur == heartbeats[WorkerClient]
           w == inflight[s].write
           t == inflight[s].t IN
       IF w = "insert" /\ cur.exists
       THEN /\ inflight' = [inflight EXCEPT ![s].stage = "done",
                                            ![s].status = 500]
            /\ UNCHANGED heartbeats
       ELSE /\ heartbeats' = [heartbeats EXCEPT ![WorkerClient] =
                   IF w = "refresh" THEN Row(cur.instance_uuid, t)
                   ELSE Row(s, t)]
            /\ inflight' = [inflight EXCEPT ![s].stage = "done",
                                            ![s].status = 200]
    /\ UNCHANGED <<repoVars, now, task, default_branch, last, workerVars>>
    /\ UNCHANGED <<unitVars, rpc>>

\* the response has been delivered; the token may send its next heartbeat
HbDone(s) ==
    /\ inflight[s].stage = "done"
    /\ inflight' = [inflight EXCEPT ![s] = Idle]
    /\ UNCHANGED <<repoVars, now, heartbeats, task, default_branch, last, workerVars>>
    /\ UNCHANGED <<unitVars, rpc>>

\* a token that is not followed step by step holds or takes the lease
NextRace ==
    \/ Tick
    \/ \E u \in Tokens \ RaceTokens : Heartbeat(WorkerClient, TRUE, u)
    \/ \E s \in RaceTokens : HbGate(s)
    \/ \E s \in RaceTokens : HbRead(s)
    \/ \E s \in RaceTokens : HbCommit(s)
    \/ \E s \in RaceTokens : HbDone(s)

SpecRace == Init /\ [][NextRace]_vars

\* the worker process under the scheduling the code provides: the clock
\* runs on, and a process in its poll loop takes its next step
SpecWorkerLive ==
    /\ Init /\ [][NextWorker]_vars
    /\ WF_vars(Tick)
    /\ \A i \in Instances : WF_vars(PollHeartbeat(i)) /\ WF_vars(PollFetch(i))

\* ------------------------------------------------- git_utils functions
MaxCalls == 2

\* a call of one of the functions of git_utils on the working copy; known
\* says whether repo_config.default_branch is set
GitCall(fn, known) ==
    /\ git.pc = "returned" /\ git.stage # "running"
    /\ git.calls < MaxCalls
    /\ git' = [NoGit EXCEPT !.fn = fn, !.pc = "start", !.known = known,
                            !.calls = git.calls + 1, !.prev = git.result,
                            !.prev_ran = git.ran,
                            !.stage = IF fn = "sync_and_rebase_branch"
                                      THEN "running" ELSE "none"]
    /\ UNCHANGED <<now, heartbeats, task, default_branch, last, workerVars,
                   raceVars, unitVars, repo, client_repos, repos_resp, mirror>>

\* return GitResult(...)
Return(result, at) ==
    [git EXCEPT !.pc = "returned", !.result = result, !.failed_at = at]

\* a statement that runs no git command
Goto(ok, next) ==
    /\ ok
    /\ repo' = repo
    /\ git' = [git EXCEPT !.pc = next]

\* _run_git_command(cmd): exit status ok, and the working copy it leaves
RunGit(cmd, b, ok) ==
    /\ ok => can_succeed(cmd, b, repo)
    /\ repo' \in IF ok THEN {after(cmd, b, repo)}
                 ELSE after_failure(cmd, b, repo)

\* a command followed by: if not result.success: return GitResult(False,
\* prefix + result.message)
Fatal(cmd, b, ok, next, prefix) ==
    /\ RunGit(cmd, b, ok)
    /\ \E e \in Stderr(cmd) :
          git' = IF ok
                 THEN [git EXCEPT !.pc = next, !.ran = @ \cup {cmd}]
                 ELSE [Return(GitResult(FALSE, <<prefix>> \o e, ""), cmd)
                          EXCEPT !.ran = @ \cup {cmd}]

\* a command whose failure is logged or read as an answer of no
BestEffort(cmd, b, ok, next) ==
    /\ RunGit(cmd, b, ok)
    /\ git' = [git EXCEPT !.pc = next, !.ran = @ \cup {cmd}]

\* _check_diff_with_default_branch: rev-parse, then rev-list --count
_check_diff_with_default_branch(r, ok) ==
    IF ok /\ r.branch # main_branch /\ r.heads[r.branch] > r.origin[main_branch]
    THEN "ahead" ELSE ""

\* one step of clone_or_sync_repo
clone_or_sync_repo(ok) ==
    /\ git.fn = "clone_or_sync_repo"
    /\ CASE git.pc = "start" ->
               IF repo.dir = "plain"
               THEN /\ ok
                    /\ repo' = repo
                    /\ git' = Return(GitResult(FALSE,
                                  <<"not a git repository">>, ""), "exists")
               ELSE Goto(ok, IF repo.dir = "repo" THEN "default_branch"
                             ELSE "clone")
         [] git.pc = "clone" ->
               Fatal("clone", main_branch, ok, "default_branch",
                     "clone failed: ")
         [] git.pc = "default_branch" ->
               IF git.known THEN Goto(ok, "fetch")
               ELSE Fatal("symbolic-ref", main_branch, ok, "fetch",
                          "no remote default branch: ")
         [] git.pc = "fetch" ->
               Fatal("fetch", main_branch, ok, "checkout", "fetch failed: ")
         [] git.pc = "checkout" ->
               Fatal("checkout", main_branch, ok, "restore",
                     "checkout failed: ")
         [] git.pc = "restore" ->
               BestEffort("restore", main_branch, ok, "clean")
         [] git.pc = "clean" ->
               BestEffort("clean", main_branch, ok, "reset")
         [] git.pc = "reset" ->
               Fatal("reset --hard", main_branch, ok, "success",
                     "reset failed: ")
         [] git.pc = "success" ->
               /\ ok
               /\ repo' = repo
               /\ git' = Return(GitResult(TRUE, <<"synced">>, ""), "")
         [] OTHER -> FALSE
    /\ UNCHANGED <<now, heartbeats, task, default_branch, last, workerVars,
                   raceVars, unitVars, client_repos, repos_resp, mirror>>

\* one step of sync_and_rebase_branch
sync_and_rebase_branch(ok) ==
    /\ git.fn = "sync_and_rebase_branch"
    /\ CASE git.pc = "start" ->
               IF repo.dir # "repo"
               THEN /\ ok
                    /\ repo' = repo
                    /\ git' = Return(GitResult(FALSE,
                                  <<"not a git repository">>, ""), "exists")
               ELSE Goto(ok, "fetch")
         [] git.pc = "fetch" ->
               Fatal("fetch", dev_branch, ok, "ls-remote", "fetch failed: ")
         [] git.pc = "ls-remote" ->
               \* _check_remote_branch_exists
               BestEffort("ls-remote", dev_branch, ok,
                          IF ok /\ repo.remote[dev_branch] # Absent
                          THEN "checkout dev" ELSE "checkout default")
         [] git.pc = "checkout dev" ->
               Fatal("checkout", dev_branch, ok, "reset dev",
                     "checkout failed: ")
         [] git.pc = "reset dev" ->
               Fatal("reset --hard", dev_branch, ok, "rebase",
                     "reset failed: ")
         [] git.pc = "checkout default" ->
               Fatal("checkout", main_branch, ok, "reset default",
                     "checkout of the default branch failed: ")
         [] git.pc = "reset default" ->
               Fatal("reset --hard", main_branch, ok, "branch --list",
                     "reset of the default branch failed: ")
         [] git.pc = "branch --list" ->
               \* _check_local_branch_exists
               BestEffort("branch --list", dev_branch, ok,
                          IF ok /\ repo.heads[dev_branch] # Absent
                          THEN "branch -D" ELSE "checkout -b")
         [] git.pc = "branch -D" ->
               BestEffort("branch -D", dev_branch, ok, "checkout -b")
         [] git.pc = "checkout -b" ->
               Fatal("checkout -b", dev_branch, ok, "rebase",
                     "branch creation failed: ")
         [] git.pc = "rebase" ->
               /\ RunGit("rebase", main_branch, ok)
               /\ git' = [git EXCEPT !.pc = IF ok THEN "push" ELSE "abort",
                                     !.ran = @ \cup {"rebase"},
                                     !.pre = HEAD(repo)]
         [] git.pc = "abort" ->
               /\ RunGit("rebase --abort", main_branch, ok)
               /\ git' = [Return(RebaseConflict, "rebase")
                             EXCEPT !.ran = @ \cup {"rebase --abort"}]
         [] git.pc = "push" ->
               Fatal("push -f", dev_branch, ok, "success", "push failed: ")
         [] git.pc = "success" ->
               /\ ok
               /\ repo' = repo
               /\ git' = Return(GitResult(TRUE, <<"rebased and pushed">>, ""),
                                "")
         [] OTHER -> FALSE
    /\ UNCHANGED <<now, heartbeats, task, default_branch, last, workerVars,
                   raceVars, unitVars, client_repos, repos_resp, mirror>>

\* CodeDevelopNode._sync_repo after sync_and_rebase_branch has returned;
\* a is what the agent does if it is asked to resolve the conflict
_sync_repo(a) ==
    /\ git.fn = "sync_and_rebase_branch"
    /\ git.pc = "returned" /\ git.stage = "running"
    /\ git' =
         IF git.result.success
         THEN [git EXCEPT !.stage = "ok"]
         ELSE IF ~Contains(git.result.message, "conflict")
         THEN [git EXCEPT !.stage = "failed"]
         ELSE LET r == run_prompt(a)
              IN  [git EXCEPT !.agent = a,
                              !.stage = IF r.success /\ r.reply.success
                                        THEN "ok" ELSE "failed"]
    /\ UNCHANGED <<now, heartbeats, task, default_branch, last, workerVars,
                   raceVars, unitVars, repo, client_repos, repos_resp, mirror>>

has_changes_mut_always(r) == TRUE

\* git status --porcelain prints something
has_changes(r) == r.modified \/ r.untracked

\* one step of commit_and_push_changes
commit_and_push_changes(ok) ==
    /\ git.fn = "commit_and_push_changes"
    /\ CASE git.pc = "start" ->
               IF repo.dir # "repo"
               THEN /\ ok
                    /\ repo' = repo
                    /\ git' = Return(GitResult(FALSE,
                                  <<"not a git repository">>, ""), "exists")
               ELSE Goto(ok, "status")
         [] git.pc = "status" ->
               Fatal("status", repo.branch, ok,
                     IF has_changes(repo) THEN "add"
                     ELSE "nothing", "status failed: ")
         [] git.pc = "nothing" ->
               /\ repo' = repo
               /\ git' = [Return(NothingToCommit(
                             _check_diff_with_default_branch(repo, ok)), "")
                             EXCEPT !.ran = @ \cup {"rev-parse"}]
         [] git.pc = "add" ->
               Fatal("add", repo.branch, ok, "commit", "add failed: ")
         [] git.pc = "commit" ->
               Fatal("commit", repo.branch, ok, "rev-parse",
                     "commit failed: ")
         [] git.pc = "rev-parse" ->
               Fatal("rev-parse", repo.branch, ok, "push",
                     "no current branch: ")
         [] git.pc = "push" ->
               Fatal("push", repo.branch, ok, "success", "push failed: ")
         [] git.pc = "success" ->
               /\ repo' = repo
               /\ git' = Return(GitResult(TRUE, <<"committed and pushed">>,
                             _check_diff_with_default_branch(repo, ok)), "")
         [] OTHER -> FALSE
    /\ UNCHANGED <<now, heartbeats, task, default_branch, last, workerVars,
                   raceVars, unitVars, client_repos, repos_resp, mirror>>

\* CodeDevelopNode.before_execute after clone_or_sync_repo has returned:
\* a failure is raised
before_execute ==
    /\ git.fn = "clone_or_sync_repo"
    /\ git.pc = "returned" /\ git.stage = "none"
    /\ git' = [git EXCEPT !.stage = IF git.result.success THEN "ok"
                                    ELSE "failed"]
    /\ UNCHANGED <<now, heartbeats, task, default_branch, last, workerVars,
                   raceVars, unitVars, repo, client_repos, repos_resp, mirror>>

\* CodeDevelopNode.after_execute after commit_and_push_changes has
\* returned: a failure becomes a row of the node's table, and the node is
\* built and handed back
after_execute ==
    /\ git.fn = "commit_and_push_changes"
    /\ git.pc = "returned" /\ git.stage = "none"
    \* if not os.path.exists(work_repo_dir): continue
    /\ repo.dir # "absent"
    /\ git' = [git EXCEPT
                  !.rows = IF ~git.result.success THEN <<"failed">>
                           ELSE IF git.result.diff_message # ""
                           THEN <<"success">> ELSE <<>>,
                  !.stage = "ok"]
    /\ UNCHANGED <<now, heartbeats, task, default_branch, last, workerVars,
                   raceVars, unitVars, repo, client_repos, repos_resp, mirror>>

InitGit ==
    /\ InitBase
    /\ repo \in Repos
    /\ git = NoGit
    /\ client_repos = <<>>
    /\ repos_resp = NoResp
    /\ mirror = NoRefresh

\* the mirror cache force-synced again and again
NextSync ==
    \/ \E known \in BOOLEAN : GitCall("clone_or_sync_repo", known)
    \/ \E ok \in BOOLEAN : clone_or_sync_repo(ok)

SpecSync == InitGit /\ [][NextSync]_vars

\* the per-task working copy synced at the start of a stage
NextBranch ==
    \/ GitCall("sync_and_rebase_branch", TRUE)
    \/ \E ok \in BOOLEAN : sync_and_rebase_branch(ok)
    \/ \E a \in AgentOutcomes : _sync_repo(a)

SpecBranch == InitGit /\ [][NextBranch]_vars

\* commit_and_push_changes called again with nothing done in between
NextCommit ==
    \/ GitCall("commit_and_push_changes", TRUE)
    \/ \E ok \in BOOLEAN : commit_and_push_changes(ok)

SpecCommit == InitGit /\ [][NextCommit]_vars

\* one step of clone_or_sync_repo in unit c, the other unit being in the
\* same function on the same directory; a command fails only if it cannot
\* succeed in the directory as it finds it
MirrorStep(c, cmd, next, fatal) ==
    LET ok == can_succeed(cmd, main_branch, repo)
    IN  /\ RunGit(cmd, main_branch, ok)
        /\ mirror' = [mirror EXCEPT ![c] =
               IF ok \/ ~fatal
               THEN [pc |-> next, success |-> next = "returned"]
               ELSE [pc |-> "returned", success |-> FALSE]]

Refresh(c) ==
    /\ CASE mirror[c].pc = "idle" ->
               /\ repo' = repo
               /\ mirror' = [mirror EXCEPT ![c] =
                      IF repo.dir = "plain"
                      THEN [pc |-> "returned", success |-> FALSE]
                      ELSE [pc |-> IF repo.dir = "repo" THEN "fetch"
                                   ELSE "clone",
                            success |-> FALSE]]
         [] mirror[c].pc = "clone" -> MirrorStep(c, "clone", "fetch", TRUE)
         [] mirror[c].pc = "fetch" ->
               MirrorStep(c, "fetch", "checkout", TRUE)
         [] mirror[c].pc = "checkout" ->
               MirrorStep(c, "checkout", "restore", TRUE)
         [] mirror[c].pc = "restore" ->
               MirrorStep(c, "restore", "clean", FALSE)
         [] mirror[c].pc = "clean" -> MirrorStep(c, "clean", "reset", FALSE)
         [] mirror[c].pc = "reset" ->
               MirrorStep(c, "reset --hard", "returned", TRUE)
         [] OTHER -> FALSE
    /\ UNCHANGED <<now, heartbeats, task, default_branch, last, workerVars,
                   raceVars, unitVars, git, client_repos, repos_resp>>

InitMirror ==
    /\ InitBase
    /\ repo \in {r \in Repos : r.dir # "plain"}
    /\ git = NoGit
    /\ client_repos = <<>>
    /\ repos_resp = NoResp
    /\ mirror = NoRefresh

NextMirror == \E c \in Callers : Refresh(c)

SpecMirror == InitMirror /\ [][NextMirror]_vars

\* the git work of a stage, call by call: the cache refreshed and the
\* working copy synced before the agent runs, the changes committed and
\* pushed after it
NextStage ==
    \/ \E fn \in {"clone_or_sync_repo", "sync_and_rebase_branch",
                   "commit_and_push_changes"} : GitCall(fn, TRUE)
    \/ \E ok \in BOOLEAN : clone_or_sync_repo(ok)
    \/ before_execute
    \/ \E ok \in BOOLEAN : sync_and_rebase_branch(ok)
    \/ \E a \in AgentOutcomes : _sync_repo(a)
    \/ \E ok \in BOOLEAN : commit_and_push_changes(ok)
    \/ after_execute

SpecStage == InitGit /\ [][NextStage]_vars

\* ------------------------------------- PUT /api/client/<id>/repos
\* the checks of the loop over the request's repos
valid_item(r) ==
    /\ r.url # ""
    /\ (r.url = "http://r" => r.token # "")
    /\ r.desc # ""

docs_repo_count_mut_any(repos) ==
    IF \E i \in DOMAIN repos : repos[i].docs_repo THEN 1 ELSE 0

docs_repo_count(repos) ==
    Cardinality({i \in DOMAIN repos : repos[i].docs_repo})

\* dao update_client_repos: the old rows deleted, one row added per item
update_client_repos(repos) ==
    [i \in DOMAIN repos |->
        [url |-> repos[i].url, token |-> repos[i].token,
         desc |-> repos[i].desc, docs_repo |-> repos[i].docs_repo]]

\* the route: client_known is get_client_by_id, has_body is bool(data)
update_client_repos_api(client_known, has_body, repos) ==
    LET status ==
            IF ~client_known THEN 404
            ELSE IF ~has_body THEN 400
            ELSE IF \E i \in DOMAIN repos : ~valid_item(repos[i]) THEN 400
            ELSE IF docs_repo_count(repos) = 0 THEN 400
            ELSE IF docs_repo_count(repos) > 1 THEN 400
            ELSE 200
    IN  /\ client_repos' = IF status = 200 THEN update_client_repos(repos)
                           ELSE client_repos
        /\ repos_resp' = [status |-> status,
                          docs_repo_count |->
                              Cardinality({i \in DOMAIN repos :
                                              repos[i].docs_repo}),
                          seq |-> 1 - repos_resp.seq]

UpdateRepos(client_known, has_body, repos) ==
    /\ update_client_repos_api(client_known, has_body, repos)
    /\ UNCHANGED <<now, heartbeats, task, default_branch, last, workerVars,
                   raceVars, unitVars, repo, git, mirror>>

NextRepos ==
    \E client_known \in BOOLEAN, has_body \in BOOLEAN, repos \in RepoLists :
        UpdateRepos(client_known, has_body, repos)

SpecRepos == Init /\ [][NextRepos]_vars

TypeOK ==
    /\ now \in 0..MaxTime
    /\ \A c \in ClientIds : heartbeats[c].last_sync_at <= now

\* ---------------------------------------------------------------- claims
Age(c) == now - heartbeats[c].last_sync_at

\* the lease of client c is held by a token other than u and is still fresh
HeldByOther(c, u) ==
    /\ heartbeats[c].exists
    /\ heartbeats[c].instance_uuid # u
    /\ Age(c) < GATE_COOLDOWN_SECONDS

\* C1: every (owner, client) pair has one lease row holding one token; a row
\* is never removed, and its token changes from A to a different token B
\* only in an accepted heartbeat of B for that client that arrives at least
\* cooldown seconds after the last accepted heartbeat.
C1_TokenChangesOnlyAfterCooldown ==
    [][\A c \in ClientIds :
          /\ heartbeats[c].exists => heartbeats'[c].exists
          /\ (heartbeats[c].exists
              /\ heartbeats'[c].instance_uuid # heartbeats[c].instance_uuid)
             => /\ Age(c) >= INSTANCE_CHANGE_COOLDOWN_SECONDS
                /\ last'.op = "heartbeat" /\ last'.status = 200
                /\ last'.client = c
                /\ last'.uuid = heartbeats'[c].instance_uuid
                /\ heartbeats'[c].last_sync_at = now]_vars

\* a heartbeat has just replaced the token of another instance
C1_Witness ==
    /\ last.op = "heartbeat" /\ last.status = 200
    /\ last.prev_uuid # 0 /\ last.prev_uuid # last.uuid
    /\ heartbeats[last.client].instance_uuid = last.uuid

\* C2: with a lease last seen at T holding token A, a heartbeat of token B
\* at T+D is rejected (409, lease untouched) when D < cooldown and accepted
\* (lease becomes B, last seen now) when D >= cooldown; after B has been
\* accepted in place of A, a heartbeat of A that follows within the cooldown
\* is rejected.
C2_Fencing ==
    [][\A c \in ClientIds, u \in Tokens, h \in BOOLEAN :
          (Heartbeat(c, h, u) /\ heartbeats[c].exists
           /\ heartbeats[c].instance_uuid # u)
          => /\ Age(c) < INSTANCE_CHANGE_COOLDOWN_SECONDS
                => last'.status = 409 /\ heartbeats' = heartbeats
             /\ Age(c) >= INSTANCE_CHANGE_COOLDOWN_SECONDS
                => last'.status = 200 /\ heartbeats'[c] = Row(u, now)
             /\ (last.op = "heartbeat" /\ last.status = 200
                 /\ last.client = c /\ last.prev_uuid = u
                 /\ Age(c) < INSTANCE_CHANGE_COOLDOWN_SECONDS)
                => last'.status = 409 /\ heartbeats' = heartbeats]_vars

\* a token was rejected by update_heartbeat 30 seconds after the holder's
\* last heartbeat, and the lease had changed hands before
C2_Witness ==
    /\ last.op = "heartbeat" /\ last.status = 409 /\ last.has_countdown
    /\ last.prev_uuid # last.uuid
    /\ heartbeats[last.client].instance_uuid = last.prev_uuid
    /\ heartbeats[last.client].last_sync_at
         >= INSTANCE_CHANGE_COOLDOWN_SECONDS
    /\ Age(last.client) = 30

\* C3: a heartbeat whose token is the one the lease already holds is always
\* accepted, keeps the stored token and sets the last-seen time to now.
C3_Idempotence ==
    [][\A c \in ClientIds, u \in Tokens, h \in BOOLEAN :
          (Heartbeat(c, h, u) /\ heartbeats[c].exists
           /\ heartbeats[c].instance_uuid = u)
          => /\ last'.status = 200
             /\ heartbeats'[c] = Row(u, now)
             /\ \A d \in ClientIds \ {c} : heartbeats'[d] = heartbeats[d]]_vars

\* the holder's heartbeat was repeated at a later time and accepted
C3_Witness ==
    /\ last.op = "heartbeat" /\ last.status = 200
    /\ last.prev_uuid = last.uuid
    /\ heartbeats[last.client] = Row(last.uuid, now)
    /\ now > 0

BothAccepted ==
    /\ \A s \in RaceTokens : /\ inflight[s].stage = "done"
                             /\ inflight[s].status = 200
                             /\ inflight[s].write \in {"insert", "takeover"}
    /\ \A s, r \in RaceTokens : inflight[s].t = inflight[r].t

\* C5: two heartbeats with different tokens, served concurrently against an
\* absent or expired lease, are never both accepted.
C5_NeverBothAccepted == ~BothAccepted

\* process i is in its poll loop without holding the lease and every other
\* process is stopped
WaitsForLease(i) ==
    /\ pc[i] \in {"poll_hb", "poll_fetch"}
    /\ heartbeats[WorkerClient].exists
    /\ heartbeats[WorkerClient].instance_uuid # uuid[i]
    /\ \A j \in Instances \ {i} : pc[j] = "stopped"

\* C6: when the lease holder has stopped and another process keeps sending
\* heartbeats, that process is eventually accepted (unless it stops itself
\* or another process is started first), as long as the clock of the model
\* can still reach the end of the cooldown; a request that is answered 409
\* never changes the lease.
C6_CrashedHolderDoesNotBlock ==
    /\ \A i \in Instances :
          [](( WaitsForLease(i)
               /\ heartbeats[WorkerClient].last_sync_at
                    + INSTANCE_CHANGE_COOLDOWN_SECONDS < MaxTime - MinTick)
             => <>( \/ heartbeats[WorkerClient].instance_uuid = uuid[i]
                    \/ pc[i] = "stopped"
                    \/ \E j \in Instances \ {i} : pc[j] # "stopped"))
    /\ [][(last'.seq # last.seq /\ last'.status = 409)
          => heartbeats' = heartbeats]_vars

\* a process in its poll loop took the lease over from a stopped holder
C6_Witness ==
    \E i \in Instances :
        /\ pc[i] = "poll_fetch"
        /\ \A j \in Instances \ {i} : pc[j] = "stopped"
        /\ last.op = "heartbeat" /\ last.status = 200
        /\ last.uuid = uuid[i]
        /\ last.prev_uuid # 0 /\ last.prev_uuid # uuid[i]

WorkerOps ==
    {"heartbeat", "list_tasks", "get_task", "update_flow", "get_config",
     "patch_default_branch"}

\* C7: every request a worker makes (task list, task fetch, flow update,
\* heartbeat, configuration fetch, default-branch patch) whose token fails
\* check_instance_uuid_valid is answered 409 and its handler does not run.
C7_EveryWorkerRequestGated ==
    [][(last'.seq # last.seq /\ last'.op \in WorkerOps
        /\ ~check_instance_uuid_valid(heartbeats[last'.client],
                                      last'.hdr_uuid, now,
                                      GATE_COOLDOWN_SECONDS))
       => /\ last'.status = 409
          /\ UNCHANGED <<heartbeats, task, default_branch>>]_vars

\* C8: check_instance_uuid_valid admits the request exactly when there is
\* no lease, or the lease holds the request's token, or the lease was last
\* seen at least cooldown seconds ago; otherwise the request is answered
\* 409; the check leaves every lease as it was.
C8_GateDecision ==
    [][\A c \in ClientIds, u \in Tokens :
          ReadRequest("get_task", c, u)
          => /\ last'.status = 200
                <=> \/ ~heartbeats[c].exists
                    \/ heartbeats[c].instance_uuid = u
                    \/ Age(c) >= GATE_COOLDOWN_SECONDS
             /\ last'.status \in {200, 409}
             /\ heartbeats' = heartbeats]_vars

\* a request with another token was admitted because the lease had expired
C8_Witness ==
    /\ last.op = "get_task" /\ last.status = 200
    /\ heartbeats[last.client].exists
    /\ heartbeats[last.client].instance_uuid # last.uuid
    /\ Age(last.client) = GATE_COOLDOWN_SECONDS

\* C9: every heartbeat rejected by the arbitration is answered 409 with a
\* message that carries the countdown cooldown - (now - last seen).
C9_RejectionCarriesCountdown ==
    [][\A c \in ClientIds, u \in Tokens, h \in BOOLEAN :
          (Heartbeat(c, h, u) /\ last'.seq # last.seq
           /\ last'.status # 200)
          => /\ last'.status = 409
             /\ last'.has_countdown
             /\ last'.countdown
                  = INSTANCE_CHANGE_COOLDOWN_SECONDS - Age(c)]_vars

\* the last answer process i received is a heartbeat conflict
Conflict(i) ==
    /\ uuid[i] # 0
    /\ last.op = "heartbeat" /\ last.status = 409 /\ last.uuid = uuid[i]

\* C10: a worker whose heartbeat was answered with a conflict stops: it
\* sends no further heartbeat with that token, fetches no tasks and starts
\* no unit.
C10_StopsOnConflict ==
    [][\A i \in Instances :
          Conflict(i)
          => /\ ~StartupHeartbeat(i) /\ ~PollHeartbeat(i) /\ ~PollFetch(i)
             /\ task_threads'[i] \subseteq task_threads[i]]_vars

\* the transition table: the status one completed stage leaves behind
TransitionTable(current) ==
    CASE current \in {"pending", "running"} -> "reviewing"
      [] current = "revising" -> "reviewing"
      [] current = "reviewed" -> "done"
      [] OTHER -> current

\* unit u sends the update that ends a completed envelope and the server
\* applies it
PersistsStage(u) ==
    /\ workers[u].pc = "persist" /\ workers'[u].pc = "loop"
    /\ last'.seq # last.seq /\ last'.status = 200

\* C11: an execute cycle whose envelope has completed moves flow_status as
\* the transition table says (pending or running to reviewing, revising to
\* reviewing, reviewed to done): the stage ran for one of these statuses,
\* the server still shows it (or its executing marker), and the update
\* stores the table's next status; a cycle that finds reviewing, done or an
\* error status changes nothing.
C11_CycleFollowsTable ==
    [][\A u \in Units :
          /\ PersistsStage(u)
             => /\ workers[u].task.flow_status
                     \in {"pending", "running", "revising", "reviewed"}
                /\ task.flow_status
                     \in {workers[u].task.flow_status,
                          IF workers[u].task.flow_status = "pending"
                          THEN "running" ELSE workers[u].task.flow_status}
                /\ task'.flow_status
                     = TransitionTable(workers[u].task.flow_status)
          /\ (workers[u].pc = "execute" /\ workers'[u].pc # "execute"
              /\ workers[u].task.flow_status
                   \in {"reviewing", "done", "error", "client_error"})
             => task' = task /\ workers'[u].pc = "loop"]_vars

\* a merge-preparation stage has just moved the task from reviewed to done,
\* with one node from each stage
C11_Witness ==
    \E u \in Units :
        /\ workers[u].pc = "loop" /\ workers[u].key = 1
        /\ workers[u].task.flow_status = "reviewed"
        /\ last.op = "update_flow" /\ last.status = 200
        /\ task.flow_status = "done"
        /\ Len(task.flow.nodes) = 2

\* the changes of flow_status the workflow documents: the chain pending,
\* running, reviewing, reviewed, done (pending or running to reviewing by
\* the table), the revision loop between reviewing and revising, and the
\* forced client_error of a failure
DocumentedChanges ==
    {<<"pending", "running">>, <<"pending", "reviewing">>,
     <<"running", "reviewing">>, <<"reviewing", "reviewed">>,
     <<"reviewed", "done">>, <<"reviewing", "revising">>,
     <<"revising", "reviewing">>}
    \cup {<<s, "client_error">> : s \in {"pending", "running", "reviewing",
                                         "reviewed", "revising", "done"}}

\* a worker cycle or a review changes the stored flow_status (a status with
\* "error" is left only by the reset a person makes)
FlowStatusChanges ==
    /\ task'.flow_status # task.flow_status
    /\ ~HasError(task.flow_status)

HandlesStageFailure(u) ==
    /\ workers[u].pc = "handler" /\ workers[u].err \in ErrTexts
    /\ workers'[u].pc = "loop"

\* C13: an exception raised inside a stage's envelope is caught by the run
\* loop of the task unit, and once the except block is done the server
\* stores flow_status client_error and the exception text under the flow's
\* error field.
C13_FailureRecorded ==
    [][\A u \in Units :
          HandlesStageFailure(u)
          => /\ task'.flow_status = "client_error"
             /\ task'.flow.error = workers[u].err]_vars

\* C14: after a stage has failed in a unit, the unit does not enter a
\* stage's envelope (the agent, the sync engine) for the task again before
\* the task's flow_status has been reset by someone else; and an iteration
\* that fetches a flow_status containing "error" is skipped.
C14_NoAutomaticRetry ==
    [][\A u \in Units :
          /\ workers[u].failed
             => ~(workers[u].pc # "envelope" /\ workers'[u].pc = "envelope")
          /\ (workers[u].pc = "get_task" /\ workers'[u].pc # "get_task"
              /\ last'.seq # last.seq /\ last'.status = 200
              /\ HasError(TaskRow(workers[u].key).flow_status))
             => workers'[u].pc = "loop"]_vars

\* C15: a flow update that is applied with only flow_status set leaves the
\* stored flow document as it was, one with only flow set leaves the stored
\* flow_status as it was, and one with neither set changes nothing.
C15_PartialUpdate ==
    [][(last'.seq # last.seq /\ last'.op = "update_flow"
        /\ last'.status = 200)
       => \A fs \in FlowStatusArgs, f \in FlowArgs :
             update_task_flow_api(last'.client, last'.hdr_uuid, fs, f)
             => /\ (fs # "none" /\ f = None)
                   => task'.flow = task.flow /\ task'.flow_status = fs
                /\ (fs = "none" /\ f # None)
                   => /\ task'.flow_status = task.flow_status
                      /\ task'.flow = f[1]
                /\ (fs = "none" /\ f = None) => task' = task]_vars

\* a flow update has been applied and the task, with a flow document
\* stored, is in reviewing
C15_Witness ==
    /\ last.op = "update_flow" /\ last.status = 200
    /\ task.flow.nodes = <<"code_develop">>
    /\ task.flow_status = "reviewing"

\* every attempt of the call so far has ended in an exception of the
\* connection
OnlyConnectionFailures ==
    /\ rpc.pc \in {"request", "sleep", "raised"}
    /\ rpc.pc = "raised" => rpc.outcome = ConnectionError

\* the delay between attempts is fixed (10 seconds each), and the call that
\* finds the connection failing after its last attempt raises
\* ApiException(0) to its caller
FixedDelayThenFailure ==
    /\ [](rpc.slept = 10 * rpc._network_retry_count
          /\ (rpc.pc = "request" => rpc.attempts = rpc._network_retry_count)
          /\ (rpc.pc \in {"sleep", "returned", "raised"}
              => rpc.attempts = rpc._network_retry_count + 1))
    /\ [][(rpc.pc = "request" /\ rpc'.pc = "raised"
           /\ rpc'.outcome = ConnectionError)
          => rpc'.code = 0 /\ rpc'.attempts = rpc.attempts + 1]_vars
    /\ [][rpc.pc = "raised" => rpc'.pc \in {"raised", "request"}
                               /\ (rpc'.pc = "request" => rpc'.attempts = 0)
         ]_vars

ErrorResponse(o) ==
    /\ o.kind = "response"
    /\ o.status >= 400 \/ ~o.json

\* C17: a call whose response has HTTP status >= 400, or a body that cannot
\* be parsed, raises ApiException with that status at once: the attempt
\* that received the response is the call's last request, and when it was
\* the first attempt exactly one request was sent.
C17_ErrorResponseNotRetried ==
    /\ [][(rpc.pc = "request" /\ rpc'.attempts = rpc.attempts + 1
           /\ ErrorResponse(rpc'.outcome))
          => /\ rpc'.pc = "raised"
             /\ rpc'.code = rpc'.outcome.status
             /\ rpc'._network_retry_count = rpc._network_retry_count
             /\ rpc'.slept = rpc.slept
             /\ (rpc.attempts = 0 => rpc'.attempts = 1)]_vars
    /\ [][(rpc.pc = "raised" /\ rpc'.attempts # rpc.attempts)
          => rpc'.attempts = 0 /\ rpc'.pc = "request"]_vars

\* the first attempt of a call was answered 200 with a body that is not
\* JSON, and the call raised
C17_Witness ==
    /\ rpc.pc = "raised" /\ rpc.attempts = 1
    /\ rpc.outcome = HttpResponse(200, FALSE) /\ rpc.code = 200

\* the task keys process i tracks
Tracked(i) == {e[1] : e \in task_threads[i]}

\* a poll tick of process i has gone through without an exception
TickCompletes(i) ==
    /\ pc[i] = "poll_fetch" /\ pc'[i] = "poll_hb"
    /\ last'.seq # last.seq /\ last'.status = 200

\* C18: after a poll tick that completes without an exception the registry
\* tracks exactly the task keys the tick fetched, each with one started
\* unit of that key: a key that was not tracked has a new unit, a tracked
\* unit that had ended or whose key has left the fetched set is tracked no
\* more (a live one was told to stop), and the other entries are kept.
C18_RegistryMatchesFetch ==
    [][\A i \in Instances :
          TickCompletes(i)
          => /\ {e[1] : e \in task_threads'[i]} = get_running_tasks
             /\ \A e, f \in task_threads'[i] : e[1] = f[1] => e = f
             /\ \A e \in task_threads'[i] :
                   /\ workers'[e[2]].pc \notin {"unstarted", "exited"}
                   /\ workers'[e[2]].key = e[1]
                   /\ workers'[e[2]].proc = i
                   /\ ~workers'[e[2]].stopped
             /\ \A e \in task_threads'[i] :
                   e[1] \notin Tracked(i) \/ ~is_alive(
                       (CHOOSE f \in task_threads[i] : f[1] = e[1])[2])
                   => /\ e \notin task_threads[i] \/ ~is_alive(e[2])
                      /\ workers'[e[2]] = TaskWorker(e[1], i)
             /\ \A e \in task_threads[i] :
                   /\ (is_alive(e[2]) /\ e[1] \in get_running_tasks)
                      => /\ e \in task_threads'[i]
                         /\ workers'[e[2]] = workers[e[2]]
                   /\ (is_alive(e[2]) /\ e[1] \notin get_running_tasks)
                      => /\ e \notin task_threads'[i]
                         /\ workers'[e[2]].stopped]_vars

\* after a tick the only tracked key is task 2, with a unit that has just
\* been started, while the unit of task 1, which has been suspended, is
\* tracked no more and has been told to stop
C18_Witness ==
    \E u, v \in Units :
        /\ pc[1] = "poll_hb"
        /\ last.op = "list_tasks" /\ last.status = 200
        /\ task_status[1] = "suspended" /\ task_status[2] = "running"
        /\ task_threads[1] = {<<2, v>>}
        /\ workers[v] = TaskWorker(2, 1)
        /\ workers[u].key = 1 /\ workers[u].stopped
        /\ workers[u].pc \notin {"unstarted", "exited"}

\* thread u is alive and inside a stage's envelope, which prepares and uses
\* the working copy cache_dir/code_develop/<task key> of its task
OnWorkingCopy(u) == is_alive(u) /\ workers[u].pc = "envelope"

\* C19: at no time are two live units of one worker process working on the
\* working copy of the same task key, also when the task leaves the running
\* set and comes back while the stage of the stopped unit is still running.
C19_ExclusiveWorkingCopy ==
    \A u, v \in Units :
        (u # v /\ OnWorkingCopy(u) /\ OnWorkingCopy(v)
         /\ workers[u].proc = workers[v].proc)
        => workers[u].key # workers[v].key

\* C20: once stop() has been called on a unit, the unit begins no new
\* cycle of its loop, its next step at the loop boundary is the return of
\* run(), and, its calls in flight returning, it reaches that boundary and
\* terminates.
C20_CooperativeCancellation ==
    /\ [][\A u \in Units :
             (workers[u].stopped /\ workers[u].pc = "loop"
              /\ workers'[u] # workers[u])
             => workers'[u].pc \in {"unstarted", "exited"}]_vars
    /\ [][\A u \in Units :
             (workers[u].stopped /\ is_alive(u) /\ is_alive(u)')
             => workers'[u].stopped]_vars
    /\ \A u \in Units :
          [](workers[u].stopped /\ is_alive(u) => <>~is_alive(u))

\* a unit was told to stop while its stage was running; the stage is over
\* and the unit stands at the loop boundary with the flag set
C20_Witness ==
    \E u \in Units :
        /\ workers[u].stopped /\ workers[u].pc = "loop"
        /\ workers[u].task.flow.nodes # <<>>
        /\ task.flow.nodes = workers[u].task.flow.nodes

\* C25: whenever a unit is running a stage's envelope for a task it fetched
\* as pending, the server's flow_status is not pending any more: the
\* intermediate update to running was stored before the envelope began.
C25_NotPendingWhileWorking ==
    \A u \in Units :
        (is_alive(u) /\ workers[u].pc = "envelope"
         /\ workers[u].task.flow_status = "pending")
        => TaskRow(workers[u].key).flow_status # "pending"

\* C26: the node a completed stage has appended and the stage's next
\* flow_status reach the server in one update: the update that ends the
\* stage stores the unit's flow document and the next status together, and
\* no update of a worker changes the stored nodes and leaves flow_status
\* at an executing status (running, revising, reviewed).
C26_FlowAndStatusTogether ==
    /\ [][\A u \in Units :
             PersistsStage(u)
             => /\ task'.flow = workers[u].task.flow
                /\ task'.flow_status
                     = default_next_status(workers[u].task.flow_status)
                /\ task'.flow_status
                     # executing_status(workers[u].task.flow_status)]_vars
    /\ [][(last'.seq # last.seq /\ last'.op = "update_flow"
           /\ task'.flow.nodes # task.flow.nodes)
          => task'.flow_status \notin {"pending", "running", "revising",
                                       "reviewed"}]_vars

\* a development stage that ran for a revision has just stored its node and
\* the status reviewing
C26_Witness ==
    \E u \in Units :
        /\ workers[u].pc = "loop" /\ workers[u].key = 1
        /\ workers[u].task.flow_status = "revising"
        /\ last.op = "update_flow" /\ last.status = 200
        /\ task.flow_status = "reviewing"
        /\ task.flow = workers[u].task.flow
        /\ task.flow.nodes = <<"code_develop", "user_feedback", "code_develop">>

\* unit u calls execute with a fetched flow_status of reviewing, done, error
\* or client_error
ExecuteWaits(u) ==
    /\ workers[u].pc = "execute" /\ workers'[u].pc # "execute"
    /\ workers[u].task.flow_status
         \in {"reviewing", "done", "error", "client_error"}

\* C27: execute on a task whose flow_status is reviewing, done, error or
\* client_error does nothing: no request is sent, no envelope (git, agent)
\* is entered, and the task's flow and flow_status, on the server and in
\* the unit, stay as they are.
C27_NoOpStatuses ==
    [][\A u \in Units :
          ExecuteWaits(u)
          => /\ last' = last
             /\ task' = task
             /\ workers'[u] = [workers[u] EXCEPT !.pc = "loop"]]_vars

\* a unit has fetched the task as done, called execute, and is back at the
\* loop boundary; its last request was the configuration fetch
C27_Witness ==
    \E u \in Units :
        /\ workers[u].pc = "loop" /\ workers[u].key = 1
        /\ workers[u].task.flow_status = "done"
        /\ workers[u].task = task
        /\ last.op = "get_config" /\ last.status = 200

\* C28: in the tick that fetches a running set without a tracked unit's
\* task key the supervisor calls stop() on that unit, and a live unit never
\* leaves the registry of a process that keeps running without the stop
\* flag set.
C28_StoppedWhenDropped ==
    /\ [][\A i \in Instances :
             TickCompletes(i)
             => \A e \in task_threads[i] :
                   (is_alive(e[2]) /\ e[1] \notin get_running_tasks)
                   => workers'[e[2]] = stop(workers[e[2]])]_vars
    /\ [][\A i \in Instances :
             \A e \in task_threads[i] :
                (e \notin task_threads'[i] /\ is_alive(e[2])
                 /\ pc'[i] # "stopped")
                => /\ workers'[e[2]].stopped
                   /\ TickCompletes(i)
                   /\ e[1] \notin get_running_tasks]_vars

\* a live unit whose task has been suspended is tracked no more and has its
\* stop flag set
C28_Witness ==
    \E u \in Units :
        /\ workers[u].pc \notin {"unstarted", "exited"}
        /\ workers[u].key = 1 /\ workers[u].proc = 1
        /\ Dropped(u) /\ workers[u].stopped
        /\ task_status[1] = "suspended"
        /\ last.op = "list_tasks" /\ last.status = 200

\* C21: whenever clone_or_sync_repo returns success the working copy is on
\* the default branch, HEAD is origin/<default> as fetched, and there are
\* no local modifications and no untracked files, also when restore or
\* clean failed.
C21_ForceSyncGuarantee ==
    (git.fn = "clone_or_sync_repo" /\ git.pc = "returned"
     /\ git.result.success)
    => /\ repo.branch = main_branch
       /\ HEAD(repo) = repo.origin[main_branch]
       /\ ~repo.modified
       /\ ~repo.untracked

\* C22: when the rebase of sync_and_rebase_branch fails, the call returns
\* with no rebase in progress and HEAD at the commit it had before the
\* rebase, without having tried to push, and with the rebase-conflict
\* result, which a call that failed elsewhere never returns.
C22_RebaseConflictSignaled ==
    (git.fn = "sync_and_rebase_branch" /\ git.pc = "returned")
    => /\ git.failed_at = "rebase"
          => /\ ~repo.rebasing
             /\ HEAD(repo) = git.pre
             /\ "push -f" \notin git.ran
             /\ git.result = RebaseConflict
       /\ git.failed_at # "rebase" => git.result # RebaseConflict

C29_BranchSelected ==
    (git.fn = "sync_and_rebase_branch" /\ git.pc = "rebase")
    => /\ repo.branch = dev_branch
       /\ HEAD(repo) = IF repo.remote[dev_branch] # Absent
                       THEN repo.origin[dev_branch]
                       ELSE repo.origin[main_branch]

\* C30: _sync_repo asks the agent to resolve the conflict exactly when
\* sync_and_rebase_branch returned the rebase-conflict result; every other
\* failure fails the stage without the agent, and the stage fails as well
\* when the agent call fails or its reply reports failure.
C30_AgentOnRebaseConflictOnly ==
    (git.fn = "sync_and_rebase_branch" /\ git.stage \in {"ok", "failed"})
    => /\ git.agent # "not invoked" <=> git.result = RebaseConflict
       /\ (~git.result.success /\ git.result # RebaseConflict)
          => git.stage = "failed"
       /\ git.agent \in AgentOutcomes \ {"reply success"}
          => git.stage = "failed"

\* C24: after any sequence of PUTs of a client's repository bindings the
\* stored list is empty or has exactly one binding with docs_repo set, and
\* a PUT whose list has no such binding or more than one is rejected and
\* leaves the stored rows as they were.
C24_OneDocsRepo ==
    /\ [](client_repos = <<>>
          \/ Cardinality({i \in DOMAIN client_repos :
                             client_repos[i].docs_repo}) = 1)
    /\ [][(repos_resp'.seq # repos_resp.seq
           /\ repos_resp'.docs_repo_count # 1)
          => /\ repos_resp'.status \in {400, 404}
             /\ client_repos' = client_repos]_vars

\* two bindings are stored, one of them the documentation repository, and
\* a list with two documentation repositories has just been refused
C24_Witness ==
    /\ Len(client_repos) = 2
    /\ client_repos[2].docs_repo /\ ~client_repos[1].docs_repo
    /\ repos_resp.status = 400 /\ repos_resp.docs_repo_count = 2

\* C40: whenever a call of commit_and_push_changes returns success, the
\* commits that this call or the call before it made on the current branch
\* are on the remote branch of the same name, also when the earlier call
\* committed and then failed to push.
C40_SuccessMeansPushed ==
    (git.fn = "commit_and_push_changes" /\ git.pc = "returned"
     /\ git.result.success
     /\ ("push" \in git.ran \/ "push" \in git.prev_ran))
    => repo.remote[repo.branch] = repo.heads[repo.branch]

\* C31: a git failure inside a stage that is not the rebase conflict,
\* the failure of the commit or push after the stage included, fails the
\* stage: it does not go on to its success status.
C31_GitFailureFatal ==
    (git.stage \in {"ok", "failed"} /\ ~git.result.success
     /\ git.result # RebaseConflict)
    => git.stage = "failed"

\* C32: two units that refresh the shared mirror at the same time both
\* return success under every interleaving of their steps, and the mirror
\* ends on the default branch at the remote's commit, with nothing left
\* over.
C32_ConcurrentRefreshSafe ==
    (\A c \in Callers : mirror[c].pc = "returned")
    => /\ \A c \in Callers : mirror[c].success
       /\ repo.branch = main_branch
       /\ HEAD(repo) = repo.remote[main_branch]
       /\ ~repo.modified /\ ~repo.untracked

\* s is the beginning of t
IsPrefix(s, t) == Len(s) <= Len(t) /\ SubSeq(t, 1, Len(s)) = s

\* the unit's update of the task row is applied in this step
UnitWrites(u) ==
    /\ workers[u].pc \in {"handler", "persist"} /\ workers'[u].pc = "loop"
    /\ last'.seq # last.seq /\ last'.op = "update_flow"
    /\ last'.status = 200

\* C33: every flow document a unit sends, the client_error write of the
\* except block included, comes from the snapshot fetched in the same loop
\* iteration, so the write never removes nodes the server stored after the
\* unit's last successful fetch.
C33_WritesFromFreshSnapshot ==
    [][\A u \in Units :
          UnitWrites(u) => IsPrefix(task.flow.nodes, task'.flow.nodes)]_vars

\* C34: a review request is applied in two cases only. approve on a task
\* in reviewing sets reviewed and leaves the flow alone; revise with a
\* feedback that is not blank on a task in reviewing or done sets revising
\* and appends a user_feedback node as the last node, the one the next
\* stage reads. Every other request leaves flow and flow_status as they
\* were.
C34_ReviewRules ==
    \A action \in ReviewActions, feedback \in Feedbacks :
        LET r == review_task(task, action, feedback) IN
        IF action = "approve" /\ task.flow_status = "reviewing"
        THEN r = [task EXCEPT !.flow_status = "reviewed"]
        ELSE IF /\ action = "revise"
                /\ task.flow_status \in {"reviewing", "done"}
                /\ strip(feedback) # ""
        THEN /\ r.flow_status = "revising"
             /\ r.flow = [task.flow EXCEPT
                             !.nodes = Append(@, "user_feedback")]
             /\ user_feedback(r.flow) # ""
        ELSE r = task

\* a finished task has been sent back for revision
C34_Witness ==
    /\ task.flow_status = "revising"
    /\ task.flow.nodes =
          <<"code_develop", "code_develop", "user_feedback">>
    /\ user_feedback(task.flow) # ""

\* process i has entered ClientRunner.run
InRunner(i) == pc[i] \in {"poll_hb", "poll_fetch"}

\* the units of process i: the entries of its registry and its threads
UnitsOf(i) == {u \in Units : workers[u].proc = i}

\* C35: a worker process enters its supervisor loop only by the step in
\* which its startup heartbeat is accepted, and has no unit before that; a
\* process whose startup heartbeat is refused stops without a unit.
C35_LoopAfterStartupHeartbeat ==
    [][\A i \in Instances :
          /\ (~InRunner(i) /\ InRunner(i)')
             => /\ pc[i] = "startup_hb"
                /\ last'.seq # last.seq
                /\ last'.op = "heartbeat" /\ last'.status = 200
                /\ last'.uuid = uuid[i]
          /\ ~InRunner(i)'
             => task_threads'[i] = {} /\ UnitsOf(i)' = {}
          /\ (/\ pc[i] = "startup_hb"
              /\ last'.seq # last.seq /\ last'.op = "heartbeat"
              /\ last'.uuid = uuid[i] /\ last'.status # 200)
             => pc'[i] = "stopped"]_vars

\* a process was refused at its startup heartbeat and has stopped, while
\* the process that holds the lease runs a unit
C35_Witness ==
    \E i \in Instances :
        /\ pc[i] = "stopped"
        /\ last.op = "heartbeat" /\ last.status = 409 /\ last.uuid = uuid[i]
        /\ UnitsOf(i) = {}
        /\ \E j \in Instances \ {i} : InRunner(j) /\ UnitsOf(j) # {}

\* C36: a heartbeat that is rejected leaves the lease it asked for as it
\* was, token and last-seen time alike, and no heartbeat, accepted or not,
\* changes the lease of another client.
C36_RejectedHeartbeatFrame ==
    [][(last'.seq # last.seq /\ last'.op = "heartbeat")
       => /\ last'.status # 200 => heartbeats' = heartbeats
          /\ \A c \in ClientIds \ {last'.client} :
                heartbeats'[c] = heartbeats[c]]_vars

\* the arbitration has just refused a token while the lease, last seen
\* earlier, belongs to another one, and the other client has a lease too
C36_Witness ==
    /\ last.op = "heartbeat" /\ last.status = 409 /\ last.has_countdown
    /\ heartbeats[last.client].exists
    /\ heartbeats[last.client].instance_uuid # last.uuid
    /\ heartbeats[last.client].last_sync_at < now
    /\ \E c \in ClientIds \ {last.client} : heartbeats[c].exists

\* C37: for every lease, token and time, the gate admits a request exactly
\* when the arbitration would accept a heartbeat with the same token, each
\* with the cooldown its own code path passes, the moment at which the
\* lease has been silent for exactly the cooldown included.
C37_GateAgreesWithArbitration ==
    \A c \in ClientIds, u \in Tokens :
        check_instance_uuid_valid(heartbeats[c], u, now,
                                  GATE_COOLDOWN_SECONDS)
        <=> update_heartbeat(heartbeats[c], u, now,
                             INSTANCE_CHANGE_COOLDOWN_SECONDS).ok

\* a token was refused, and now the lease of the other token has been
\* silent for exactly the cooldown: both decisions turn to admit
C37_Witness ==
    /\ last.op = "heartbeat" /\ last.status = 409
    /\ heartbeats[last.client].exists
    /\ heartbeats[last.client].instance_uuid # last.uuid
    /\ Age(last.client) = GATE_COOLDOWN_SECONDS
    /\ check_instance_uuid_valid(heartbeats[last.client], last.uuid, now,
                                 GATE_COOLDOWN_SECONDS)
    /\ update_heartbeat(heartbeats[last.client], last.uuid, now,
                        INSTANCE_CHANGE_COOLDOWN_SECONDS).ok

\* C38: a stage whose envelope completes appends exactly one node: the
\* unit's list grows by the stage's node at its end, and the update that
\* ends the stage leaves on the server the nodes stored before, in order,
\* followed by that one node; nothing stored is removed or reordered.
C38_StageAppendsOneNode ==
    [][\A u \in Units :
          /\ (workers[u].pc = "envelope" /\ workers'[u].pc = "persist")
             => workers'[u].task.flow.nodes
                  = Append(workers[u].task.flow.nodes, "code_develop")
          /\ PersistsStage(u)
             => task'.flow.nodes
                  = Append(task.flow.nodes, "code_develop")]_vars

\* C39: when _execute_and_persist returns normally the server's flow_status
\* is the stage's next status: the update that ends the stage has been
\* applied, so the next cycle does not find the executing status again.
C39_ReturnMeansPersisted ==
    [][\A u \in Units :
          (workers[u].pc = "persist" /\ workers'[u].pc = "loop")
          => task'.flow_status
               = default_next_status(workers[u].task.flow_status)]_vars
====
